---- MODULE Spec2Model ----
(***************************************************************************)
(* Model of the similarity engine of the Speech Similarity API             *)
(* (app/services/similarity_service.py) with the exceptions it raises      *)
(* (app/core/exceptions.py).                                               *)
(*                                                                         *)
(* Floats are fixed-point integers: the float x is the integer x * SCALE,  *)
(* so 1.0 is SCALE and 0.899999 is 899999.  A quotient that is not a       *)
(* multiple of 1/SCALE is truncated toward zero, a halving toward minus    *)
(* infinity; this stands for the rounding of the double arithmetic.        *)
(* A Python exception is a value: an operation either returns              *)
(* [kind |-> "return"] or raises [kind |-> "raise"], and a caller that     *)
(* has no try/except passes a raise on unchanged.                          *)
(***************************************************************************)
EXTENDS Integers, Sequences, FiniteSets, TLC

VARIABLES pc, op, vector1, vector2, comparison_vectors, score_arg, outcome, steps,
          scipy_build, instance, frames,
          request, embedding, metrics, database, audio, sessions

vars == <<pc, op, vector1, vector2, comparison_vectors, score_arg, outcome, steps,
          scipy_build, instance, frames,
          request, embedding, metrics, database, audio, sessions>>

(***************************************************************************)
(* Bounds of the model.                                                    *)
(***************************************************************************)
\* longest vector drawn as an input
MaxDim == 2
\* longest candidate list drawn as a batch input
MaxBatch == 2
\* longest list of texts handed to get_embeddings_batch
MaxTexts == 3
\* most requests recorded by the metrics between two resets
MaxRequests == 3
\* most errors recorded by the metrics between two resets
MaxErrors == 2
\* most connection pools the database client creates
MaxPools == 3

\* the float 1.0 in fixed-point units
SCALE == 1000000

(***************************************************************************)
(* Vector components: a float, or a value numpy cannot convert to float64  *)
(* (such as the string "abc").  Tiny(n) is the float n * 1e-9, non-zero    *)
(* for n # 0 and below the resolution 1 / SCALE; NaN is float("nan").      *)
(***************************************************************************)
Float(n) == [kind |-> "float", val |-> n]
Tiny(n) == [kind |-> "tiny", val |-> n]
NaN == [kind |-> "nan", val |-> 0]
NonNumeric == [kind |-> "str", val |-> 0]

Components == {Float(-1), Float(0), Float(2), NonNumeric}
ReferenceComponents == {Float(-1), Float(2)}
CandidateComponents == {Float(-1), Float(2)}

SeqsUpTo(S, n) == UNION {[1..k -> S] : k \in 0..n}

Vectors == SeqsUpTo(Components, MaxDim)
ReferenceVectors == SeqsUpTo(ReferenceComponents, MaxDim)
\* candidates of a batch: numeric vectors, and malformed ones of every length
CandidateVectors ==
    SeqsUpTo(CandidateComponents, MaxDim) \cup {[i \in 1..k |-> NonNumeric] : k \in 1..MaxDim}
Batches == SeqsUpTo(CandidateVectors, MaxBatch)

\* vectors of the pairwise comparison: those of Vectors, and for every length
\* the vectors of tiny components and the vector of NaNs
PairVectors ==
    Vectors \cup {[i \in 1..k |-> c] : k \in 1..MaxDim, c \in {Tiny(1), Tiny(-1), NaN}}

\* what scipy.spatial.distance.cosine does with a NaN quotient depends on the
\* installed release: it returns the NaN, or max(0, min(NaN, 2.0)) = 0
ScipyBuilds == {"returns_nan", "clamps_nan"}

\* scores handed to normalize_similarity_score: a grid over [-1.1, 1.1] with
\* the neighbours of every grid point
RawSamples == {k * (SCALE \div 20) + d : k \in -22..22, d \in -1..1}
\* scores handed to interpret_similarity_score: a grid over [0.0, 1.0] with the
\* neighbours of every grid point
NormalizedSamples ==
    {n \in {k * (SCALE \div 100) + d : k \in 0..100, d \in -1..1} : n >= 0 /\ n <= SCALE}

(***************************************************************************)
(* Exceptions (app/core/exceptions.py).                                    *)
(***************************************************************************)
NoDetails == [k \in {} |-> 0]

\* SpeechSimilarityAPIError.__init__
SpeechSimilarityAPIError(cls, message, error_code, details, cause) ==
    [class |-> cls, message |-> message, error_code |-> error_code,
     details |-> details, cause |-> cause]

\* ValidationError.__init__: details is {"field": field} updated by details
ValidationError(message, field, details) ==
    SpeechSimilarityAPIError("ValidationError", message, "VALIDATION_ERROR",
        IF field # "" THEN details @@ ("field" :> field) ELSE details, "None")

\* SimilarityError.__init__, raised "from e": cause is the class of e
SimilarityError(message, cause) ==
    SpeechSimilarityAPIError("SimilarityError", message,
        "SIMILARITY_CALCULATION_ERROR", NoDetails, cause)

\* ExternalServiceError.__init__: details is {"service": service_name} updated
\* by details
ExternalServiceError(cls, message, service_name, error_code, details) ==
    SpeechSimilarityAPIError(cls, message, error_code,
        details @@ ("service" :> service_name), "None")

\* OpenAIServiceError.__init__: details is {"operation": operation} updated by
\* details; EmbeddingError and WhisperError assign their error_code afterwards
OpenAIServiceError(cls, message, operation, error_code, details) ==
    ExternalServiceError(cls, message, "openai", error_code,
        details @@ ("operation" :> operation))

EmbeddingError(message, details) ==
    OpenAIServiceError("EmbeddingError", message, "embedding_generation",
        "EMBEDDING_SERVICE_ERROR", details)

WhisperError(message, details) ==
    OpenAIServiceError("WhisperError", message, "speech_transcription",
        "WHISPER_SERVICE_ERROR", details)

\* RateLimitError.__init__ with retry_after = None
RateLimitError(service_name, details) ==
    ExternalServiceError("RateLimitError",
        [text |-> "Rate limit exceeded for", args |-> <<service_name>>],
        service_name, "RATE_LIMIT_EXCEEDED",
        details @@ ("retry_after" :> "None"))

\* the errors whose __init__ takes a message and details only
PlainError(cls, message) ==
    SpeechSimilarityAPIError(cls, message,
        CASE cls = "DatabaseError" -> "DATABASE_ERROR"
          [] cls = "DatabaseConnectionError" -> "DATABASE_CONNECTION_ERROR"
          [] cls = "SessionValidationError" -> "SESSION_VALIDATION_ERROR"
          [] cls = "AudioValidationError" -> "INVALID_AUDIO_DATA"
          [] cls = "AudioProcessingError" -> "AUDIO_PROCESSING_ERROR"
          [] cls = "TranscriptionError" -> "TRANSCRIPTION_SERVICE_ERROR",
        NoDetails, "None")

\* SessionNotFoundError.__init__
SessionNotFoundError(session_id) ==
    SpeechSimilarityAPIError("SessionNotFoundError",
        [text |-> "Session with ID was not found", args |-> <<session_id>>],
        "SESSION_NOT_FOUND", "session_id" :> session_id, "None")

Return(value, trace) == [kind |-> "return", val |-> value, steps |-> trace]
Raise(exc, trace) == [kind |-> "raise", val |-> exc, steps |-> trace]

(***************************************************************************)
(* Arithmetic.                                                             *)
(***************************************************************************)
Abs(x) == IF x < 0 THEN -x ELSE x
Clip(x, lo, hi) == IF x < lo THEN lo ELSE IF x > hi THEN hi ELSE x

\* np.array(vector, dtype=np.float64) succeeds iff every component converts
Convertible(vector) == \A i \in 1..Len(vector) : vector[i].kind # "str"

\* np.allclose(arr, 0): every component within atol = 1e-8 of zero
AllCloseZero(vector) ==
    \A i \in 1..Len(vector) :
        \/ vector[i].kind = "tiny"
        \/ vector[i].kind = "float" /\ vector[i].val = 0

HasNaN(vector) == \E i \in 1..Len(vector) : vector[i].kind = "nan"

\* the components of a vector on one scale: next to a component of unit
\* magnitude a tiny one is below the resolution and counts as 0; a vector of
\* tiny components only is taken on the scale 1e-9 (the cosine does not
\* depend on the scale of either vector)
Significand(vector) ==
    IF \E i \in 1..Len(vector) : vector[i].kind = "float" /\ vector[i].val # 0
    THEN [i \in 1..Len(vector) |->
            IF vector[i].kind = "float" THEN vector[i] ELSE Float(0)]
    ELSE [i \in 1..Len(vector) |-> Float(vector[i].val)]

RECURSIVE DotUpTo(_, _, _)
DotUpTo(u, v, n) == IF n = 0 THEN 0 ELSE DotUpTo(u, v, n - 1) + u[n].val * v[n].val
Dot(u, v) == DotUpTo(u, v, Len(u))

\* c / SCALE <= d / sqrt(N) for c, d >= 0, i.e. c*c*N <= d*d*SCALE*SCALE,
\* computed on (hi, lo) pairs in base SCALE so that no product leaves 32 bits
QuotientLe(c, d, N) ==
    LET a == c \div 1000
        b == c % 1000
        T2 == 2 * a * b * N
        T3 == b * b * N
        L == (T2 % 1000) * 1000 + (T3 % SCALE)
        hi == N * a * a + (T2 \div 1000) + (T3 \div SCALE) + (L \div SCALE)
        lo == L % SCALE
    IN  hi < d * d * SCALE \/ (hi = d * d * SCALE /\ lo = 0)

RECURSIVE Bisect(_, _, _, _)
\* the largest c in lo..hi with QuotientLe(c, d, N), given QuotientLe(lo, d, N)
Bisect(lo, hi, d, N) ==
    IF lo = hi THEN lo
    ELSE LET mid == (lo + hi + 1) \div 2
         IN  IF QuotientLe(mid, d, N) THEN Bisect(mid, hi, d, N)
             ELSE Bisect(lo, mid - 1, d, N)

\* cosine dividing by the norm of u twice instead of by both norms
cosine_normalizing_by_first(u, v) ==
    LET a == Significand(u)
        b == Significand(v)
        uv == Dot(a, b)
        N == Dot(a, a) * Dot(a, a)
        q == Bisect(0, SCALE, Abs(uv), N)
    IN  IF HasNaN(u) \/ HasNaN(v) \/ N = 0
        THEN [isnan |-> scipy_build = "returns_nan", val |-> 0]
        ELSE [isnan |-> FALSE, val |-> SCALE - (IF uv < 0 THEN -q ELSE q)]

\* cosine returning the similarity dot / norms, not the distance 1 - dot / norms
cosine_returning_similarity(u, v) ==
    LET a == Significand(u)
        b == Significand(v)
        uv == Dot(a, b)
        N == Dot(a, a) * Dot(b, b)
        q == Bisect(0, SCALE, Abs(uv), N)
    IN  IF HasNaN(u) \/ HasNaN(v) \/ N = 0
        THEN [isnan |-> scipy_build = "returns_nan", val |-> 0]
        ELSE [isnan |-> FALSE, val |-> (IF uv < 0 THEN -q ELSE q)]

\* scipy.spatial.distance.cosine(u, v) = 1 - dot(u, v) / sqrt(dot(u, u) * dot(v, v));
\* a zero norm gives 0/0 = NaN, and so does a NaN component
cosine(u, v) ==
    LET a == Significand(u)
        b == Significand(v)
        uv == Dot(a, b)
        N == Dot(a, a) * Dot(b, b)
        q == Bisect(0, SCALE, Abs(uv), N)
    IN  IF HasNaN(u) \/ HasNaN(v) \/ N = 0
        THEN [isnan |-> scipy_build = "returns_nan", val |-> 0]
        ELSE [isnan |-> FALSE, val |-> SCALE - (IF uv < 0 THEN -q ELSE q)]

(***************************************************************************)
(* SimilarityService (app/services/similarity_service.py).                 *)
(***************************************************************************)
SimilarityResult(score, normalized_score, interpretation) ==
    [score |-> score, normalized_score |-> normalized_score,
     interpretation |-> interpretation]

\* raise ValidationError("Vectors cannot be empty", field="vectors")
EmptyVectorsError ==
    ValidationError([text |-> "Vectors cannot be empty", args |-> <<>>],
                    "vectors", NoDetails)

\* DimensionMismatchError with the two lengths attributed to the wrong vectors
DimensionMismatchErrorSwapped(v1, v2) ==
    ValidationError([text |-> "Vector dimensions must match",
                     args |-> <<Len(v2), Len(v1)>>],
                    "vector_dimensions",
                    ("vector1_dim" :> Len(v2)) @@ ("vector2_dim" :> Len(v1)))

\* raise ValidationError(f"Vector dimensions must match: {len(vector1)} vs
\* {len(vector2)}", field="vector_dimensions", details={...})
DimensionMismatchError(v1, v2) ==
    ValidationError([text |-> "Vector dimensions must match",
                     args |-> <<Len(v1), Len(v2)>>],
                    "vector_dimensions",
                    ("vector1_dim" :> Len(v1)) @@ ("vector2_dim" :> Len(v2)))

\* CalculationError raised without `from e`
CalculationErrorWithoutCause(cause) ==
    SimilarityError([text |-> "Similarity calculation error", args |-> <<>>], "None")

\* except Exception as e: raise SimilarityError(...) from e
CalculationError(cause) ==
    SimilarityError([text |-> "Similarity calculation error", args |-> <<>>], cause)

\* reserved score standing for float("nan"): no finite score is that large
NotANumber == 3 * SCALE

\* CosineTryBlock returning 0.0 only when both vectors are zero vectors
CosineTryBlockBothZero(v1, v2, checked) ==
    IF ~Convertible(v1)
    THEN Raise(CalculationError("ValueError"), checked \o <<"np.array(vector1)">>)
    ELSE IF ~Convertible(v2)
    THEN Raise(CalculationError("ValueError"),
               checked \o <<"np.array(vector1)", "np.array(vector2)">>)
    ELSE LET converted == checked \o <<"np.array(vector1)", "np.array(vector2)",
                                       "np.allclose">>
             distance == cosine(v1, v2)
             similarity == SCALE - distance.val
         IN  IF AllCloseZero(v1) /\ AllCloseZero(v2)
             THEN Return(0, converted)
             ELSE IF distance.isnan
             THEN Return(0, converted \o <<"cosine", "np.isnan">>)
             ELSE Return(Clip(similarity, -SCALE, SCALE),
                         converted \o <<"cosine", "np.isnan", "np.clip">>)

\* CosineTryBlock without the np.isnan check: float(np.clip(nan, ...)) is nan
CosineTryBlockWithoutNanCheck(v1, v2, checked) ==
    IF ~Convertible(v1)
    THEN Raise(CalculationError("ValueError"), checked \o <<"np.array(vector1)">>)
    ELSE IF ~Convertible(v2)
    THEN Raise(CalculationError("ValueError"),
               checked \o <<"np.array(vector1)", "np.array(vector2)">>)
    ELSE LET converted == checked \o <<"np.array(vector1)", "np.array(vector2)",
                                       "np.allclose">>
             distance == cosine(v1, v2)
             similarity == SCALE - distance.val
         IN  IF AllCloseZero(v1) \/ AllCloseZero(v2)
             THEN Return(0, converted)
             ELSE IF distance.isnan
             THEN Return(NotANumber, converted \o <<"cosine", "np.clip">>)
             ELSE Return(Clip(similarity, -SCALE, SCALE),
                         converted \o <<"cosine", "np.clip">>)

\* the try block of calculate_cosine_similarity, entered after `checked`
CosineTryBlock(v1, v2, checked) ==
    IF ~Convertible(v1)
    THEN Raise(CalculationError("ValueError"), checked \o <<"np.array(vector1)">>)
    ELSE IF ~Convertible(v2)
    THEN Raise(CalculationError("ValueError"),
               checked \o <<"np.array(vector1)", "np.array(vector2)">>)
    ELSE LET converted == checked \o <<"np.array(vector1)", "np.array(vector2)",
                                       "np.allclose">>
             distance == cosine(v1, v2)
             similarity == SCALE - distance.val
         IN  IF AllCloseZero(v1) \/ AllCloseZero(v2)
             THEN Return(0, converted)
             ELSE IF distance.isnan
             THEN Return(0, converted \o <<"cosine", "np.isnan">>)
             ELSE Return(Clip(similarity, -SCALE, SCALE),
                         converted \o <<"cosine", "np.isnan", "np.clip">>)

\* calculate_cosine_similarity with the validation moved inside the try block,
\* so that `except Exception` re-raises a ValidationError as a SimilarityError
calculate_cosine_similarity_validating_in_try(v1, v2) ==
    IF Len(v1) = 0 \/ Len(v2) = 0
    THEN Raise(CalculationError("ValidationError"), <<"check_empty">>)
    ELSE IF Len(v1) # Len(v2)
    THEN Raise(CalculationError("ValidationError"), <<"check_empty", "check_dimensions">>)
    ELSE CosineTryBlock(v1, v2, <<"check_empty", "check_dimensions">>)

\* calculate_cosine_similarity with the dimension check ahead of the empty check
calculate_cosine_similarity_dimensions_first(v1, v2) ==
    IF Len(v1) # Len(v2)
    THEN Raise(DimensionMismatchError(v1, v2), <<"check_dimensions">>)
    ELSE IF Len(v1) = 0 \/ Len(v2) = 0
    THEN Raise(EmptyVectorsError, <<"check_dimensions", "check_empty">>)
    ELSE CosineTryBlock(v1, v2, <<"check_dimensions", "check_empty">>)

calculate_cosine_similarity(v1, v2) ==
    IF Len(v1) = 0 \/ Len(v2) = 0
    THEN Raise(EmptyVectorsError, <<"check_empty">>)
    ELSE IF Len(v1) # Len(v2)
    THEN Raise(DimensionMismatchError(v1, v2), <<"check_empty", "check_dimensions">>)
    ELSE CosineTryBlock(v1, v2, <<"check_empty", "check_dimensions">>)

\* normalize_similarity_score without the division by 2.0
normalize_similarity_score_without_halving(cosine_score) ==
    LET normalized == cosine_score + SCALE
    IN  Clip(normalized, 0, SCALE)

\* normalize_similarity_score with the sign of the score reversed
normalize_similarity_score_negated(cosine_score) ==
    LET normalized == (SCALE - cosine_score) \div 2
    IN  Clip(normalized, 0, SCALE)

\* (cosine_score + 1.0) / 2.0, clipped; the unit lost by the halving stands for
\* the rounding of the double addition, which maps 1e-17 and 0.0 to one sum
normalize_similarity_score(cosine_score) ==
    LET normalized == (cosine_score + SCALE) \div 2
    IN  Clip(normalized, 0, SCALE)

\* interpret_similarity_score with > in place of >=
interpret_similarity_score_strict(normalized_score) ==
    IF normalized_score > 900000 THEN "Very High Similarity"
    ELSE IF normalized_score > 800000 THEN "High Similarity"
    ELSE IF normalized_score > 700000 THEN "Moderate-High Similarity"
    ELSE IF normalized_score > 600000 THEN "Moderate Similarity"
    ELSE IF normalized_score > 500000 THEN "Low-Moderate Similarity"
    ELSE IF normalized_score > 300000 THEN "Low Similarity"
    ELSE "Very Low Similarity"

interpret_similarity_score(normalized_score) ==
    IF normalized_score >= 900000 THEN "Very High Similarity"
    ELSE IF normalized_score >= 800000 THEN "High Similarity"
    ELSE IF normalized_score >= 700000 THEN "Moderate-High Similarity"
    ELSE IF normalized_score >= 600000 THEN "Moderate Similarity"
    ELSE IF normalized_score >= 500000 THEN "Low-Moderate Similarity"
    ELSE IF normalized_score >= 300000 THEN "Low Similarity"
    ELSE "Very Low Similarity"

\* calculate_similarity classifying the raw cosine score, not the normalized one
calculate_similarity_interpreting_raw(v1, v2) ==
    LET cosine_score == calculate_cosine_similarity(v1, v2)
        normalized_score == normalize_similarity_score(cosine_score.val)
        interpretation == interpret_similarity_score(cosine_score.val)
    IN  IF cosine_score.kind = "raise" THEN cosine_score
        ELSE Return(SimilarityResult(cosine_score.val, normalized_score, interpretation),
                    cosine_score.steps \o <<"normalize_similarity_score",
                                            "interpret_similarity_score">>)

\* calculate_similarity skipping the normalization step
calculate_similarity_unnormalized(v1, v2) ==
    LET cosine_score == calculate_cosine_similarity(v1, v2)
        normalized_score == cosine_score.val
        interpretation == interpret_similarity_score(normalized_score)
    IN  IF cosine_score.kind = "raise" THEN cosine_score
        ELSE Return(SimilarityResult(cosine_score.val, normalized_score, interpretation),
                    cosine_score.steps \o <<"interpret_similarity_score">>)

\* calculate_similarity wrapping a failure of the cosine step in a new error
calculate_similarity_wrapping(v1, v2) ==
    LET cosine_score == calculate_cosine_similarity(v1, v2)
        normalized_score == normalize_similarity_score(cosine_score.val)
        interpretation == interpret_similarity_score(normalized_score)
    IN  IF cosine_score.kind = "raise"
        THEN Raise(CalculationError(cosine_score.val.class), cosine_score.steps)
        ELSE Return(SimilarityResult(cosine_score.val, normalized_score, interpretation),
                    cosine_score.steps \o <<"normalize_similarity_score",
                                            "interpret_similarity_score">>)

calculate_similarity(v1, v2) ==
    LET cosine_score == calculate_cosine_similarity(v1, v2)
        normalized_score == normalize_similarity_score(cosine_score.val)
        interpretation == interpret_similarity_score(normalized_score)
    IN  IF cosine_score.kind = "raise" THEN cosine_score
        ELSE Return(SimilarityResult(cosine_score.val, normalized_score, interpretation),
                    cosine_score.steps \o <<"normalize_similarity_score",
                                            "interpret_similarity_score">>)

\* the result appended in the except branch of calculate_batch_similarities
CalculationFailed == SimilarityResult(0, 0, "Calculation Failed")

RECURSIVE BatchLoopUnisolated(_, _, _, _, _)
\* BatchLoop without the try/except: the first failing comparison ends the batch
BatchLoopUnisolated(reference_vector, candidates, i, results, trace) ==
    IF i > Len(candidates) THEN Return(results, trace)
    ELSE LET result == calculate_similarity(reference_vector, candidates[i])
         IN  IF result.kind = "raise"
             THEN Raise(result.val, trace \o <<"calculate_similarity">>)
             ELSE BatchLoopUnisolated(reference_vector, candidates, i + 1,
                                      Append(results, result.val),
                                      trace \o <<"calculate_similarity">>)

RECURSIVE BatchLoopPrepending(_, _, _, _, _)
\* BatchLoop inserting each result at the front of the list
BatchLoopPrepending(reference_vector, candidates, i, results, trace) ==
    IF i > Len(candidates) THEN Return(results, trace)
    ELSE LET result == calculate_similarity(reference_vector, candidates[i])
         IN  IF result.kind = "raise"
             THEN BatchLoopPrepending(reference_vector, candidates, i + 1,
                                      <<CalculationFailed>> \o results,
                                      trace \o <<"calculate_similarity", "except">>)
             ELSE BatchLoopPrepending(reference_vector, candidates, i + 1,
                                      <<result.val>> \o results,
                                      trace \o <<"calculate_similarity">>)

RECURSIVE BatchLoop(_, _, _, _, _)
\* the for loop of calculate_batch_similarities from candidate i on
BatchLoop(reference_vector, candidates, i, results, trace) ==
    IF i > Len(candidates) THEN Return(results, trace)
    ELSE LET result == calculate_similarity(reference_vector, candidates[i])
         IN  IF result.kind = "raise"
             THEN BatchLoop(reference_vector, candidates, i + 1,
                            Append(results, CalculationFailed),
                            trace \o <<"calculate_similarity", "except">>)
             ELSE BatchLoop(reference_vector, candidates, i + 1,
                            Append(results, result.val),
                            trace \o <<"calculate_similarity">>)

\* calculate_batch_similarities without the empty-list check
calculate_batch_similarities_unchecked(reference_vector, candidates) ==
    BatchLoop(reference_vector, candidates, 1, <<>>, <<>>)

calculate_batch_similarities(reference_vector, candidates) ==
    IF Len(candidates) = 0
    THEN Raise(ValidationError([text |-> "Comparison vectors list cannot be empty",
                                args |-> <<>>],
                               "comparison_vectors", NoDetails),
               <<"check_comparison_vectors">>)
    ELSE BatchLoop(reference_vector, candidates, 1, <<>>, <<"check_comparison_vectors">>)

(***************************************************************************)
(* The similarity endpoint's use of the result                             *)
(* (app/api/v1/endpoints/similarity.py, app/models/responses.py).          *)
(***************************************************************************)
\* similarity_score = similarity_result.normalized_score
similarity_score(similarity_result) == similarity_result.normalized_score

\* SimilarityResponse.similarity_score: Field(..., ge=0.0, le=1.0)
SimilarityScoreField(value) == value >= 0 /\ value <= SCALE

(***************************************************************************)
(* The state machine: one call of one engine operation on drawn inputs.    *)
(***************************************************************************)
NoOutcome == [kind |-> "none", val |-> 0]

\* the callers that share the one SimilarityService of get_similarity_service
Callers == {"a", "b"}

\* SimilarityService.__init__ is `pass`: the instance has no attributes
NoAttributes == {}

\* a caller outside any call: no arguments, no locals, nothing returned
IdleFrame ==
    [pc |-> "idle", op |-> "none",
     vector1 |-> <<>>, vector2 |-> <<>>, comparison_vectors |-> <<>>,
     i |-> 0, results |-> <<>>,
     cosine_score |-> 0, normalized_score |-> 0, interpretation |-> "",
     outcome |-> NoOutcome]

NoCallers == [c \in Callers |-> IdleFrame]

\* the parts of the application around the engine: the request in flight at
\* the similarity endpoint, the embedding call, the performance metrics, the
\* database client, the audio service and the session service
outsideVars == <<request, embedding, metrics, database, audio, sessions>>

\* a part of the application that takes no part in the behaviours at hand
Idle == [pc |-> "idle"]

QuietOutside ==
    /\ request = Idle
    /\ embedding = Idle
    /\ metrics = Idle
    /\ database = Idle
    /\ audio = Idle
    /\ sessions = Idle

Init ==
    /\ QuietOutside
    /\ instance = NoAttributes
    /\ frames = NoCallers
    /\ pc = "call"
    /\ outcome = NoOutcome
    /\ steps = <<>>
    /\ scipy_build = "returns_nan"
    /\ \/ /\ op \in {"calculate_cosine_similarity", "calculate_similarity"}
          /\ vector1 \in Vectors
          /\ vector2 \in Vectors
          /\ comparison_vectors = <<>>
          /\ score_arg = 0
       \/ /\ op = "calculate_batch_similarities"
          /\ vector1 \in ReferenceVectors
          /\ vector2 = <<>>
          /\ comparison_vectors \in Batches
          /\ score_arg = 0
       \/ /\ op = "normalize_similarity_score"
          /\ score_arg \in RawSamples
          /\ vector1 = <<>> /\ vector2 = <<>> /\ comparison_vectors = <<>>
       \/ /\ op = "interpret_similarity_score"
          /\ score_arg \in NormalizedSamples
          /\ vector1 = <<>> /\ vector2 = <<>> /\ comparison_vectors = <<>>

Finish(r) ==
    /\ outcome' = [kind |-> r.kind, val |-> r.val]
    /\ steps' = r.steps
    /\ pc' = "done"
    /\ UNCHANGED <<op, vector1, vector2, comparison_vectors, score_arg, scipy_build,
                   instance, frames, outsideVars>>

CalculateCosineSimilarity ==
    /\ pc = "call" /\ op = "calculate_cosine_similarity"
    /\ Finish(calculate_cosine_similarity(vector1, vector2))

CalculateSimilarity ==
    /\ pc = "call" /\ op = "calculate_similarity"
    /\ Finish(calculate_similarity(vector1, vector2))

CalculateBatchSimilarities ==
    /\ pc = "call" /\ op = "calculate_batch_similarities"
    /\ Finish(calculate_batch_similarities(vector1, comparison_vectors))

NormalizeSimilarityScore ==
    /\ pc = "call" /\ op = "normalize_similarity_score"
    /\ Finish(Return(normalize_similarity_score(score_arg), <<>>))

InterpretSimilarityScore ==
    /\ pc = "call" /\ op = "interpret_similarity_score"
    /\ Finish(Return(interpret_similarity_score(score_arg), <<>>))

Next ==
    \/ CalculateCosineSimilarity
    \/ CalculateSimilarity
    \/ CalculateBatchSimilarities
    \/ NormalizeSimilarityScore
    \/ InterpretSimilarityScore

Spec == Init /\ [][Next]_vars

(***************************************************************************)
(* The pairwise comparison on the wider pool of vectors, under either      *)
(* release of the distance library.                                        *)
(***************************************************************************)
InitPairwise ==
    /\ QuietOutside
    /\ instance = NoAttributes
    /\ frames = NoCallers
    /\ pc = "call"
    /\ outcome = NoOutcome
    /\ steps = <<>>
    /\ scipy_build \in ScipyBuilds
    /\ op \in {"calculate_cosine_similarity", "calculate_similarity"}
    /\ vector1 \in PairVectors
    /\ vector2 \in PairVectors
    /\ comparison_vectors = <<>>
    /\ score_arg = 0

NextPairwise ==
    \/ CalculateCosineSimilarity
    \/ CalculateSimilarity

SpecPairwise == InitPairwise /\ [][NextPairwise]_vars

(***************************************************************************)
(* Concurrent callers of one shared SimilarityService                      *)
(* (get_similarity_service is lru_cached: every caller gets the same       *)
(* instance).  A caller's frame holds the arguments and the locals of its  *)
(* call; one step is one statement of calculate_similarity or of           *)
(* calculate_batch_similarities, and steps of different callers interleave *)
(* freely.                                                                 *)
(***************************************************************************)
ServiceVectors == {<<>>, <<Float(2)>>, <<Float(-1)>>, <<NonNumeric>>}

ServiceBatches ==
    {<<>>, << <<Float(2)>> >>, << <<NonNumeric>>, <<Float(-1)>> >>}

\* the frame of a call that has just been entered
EnterCalculateSimilarity(v1, v2) ==
    [IdleFrame EXCEPT !.pc = "line145", !.op = "calculate_similarity",
                      !.vector1 = v1, !.vector2 = v2]

EnterCalculateBatchSimilarities(reference_vector, candidates) ==
    [IdleFrame EXCEPT !.pc = "line181", !.op = "calculate_batch_similarities",
                      !.vector1 = reference_vector,
                      !.comparison_vectors = candidates]

\* the second argument of the running calculate_similarity: the caller's own,
\* or the comparison_vector of the batch loop
ComparisonVector(f) ==
    IF f.op = "calculate_batch_similarities"
    THEN f.comparison_vectors[f.i]
    ELSE f.vector2

\* calculate_similarity ends with r: to its caller, or back in the batch loop,
\* whose except branch appends the failure result
Leave(f, r) ==
    IF f.op = "calculate_batch_similarities"
    THEN [f EXCEPT !.pc = "line185",
                   !.results = Append(@, IF r.kind = "raise" THEN CalculationFailed
                                         ELSE r.val),
                   !.i = @ + 1,
                   !.cosine_score = 0, !.normalized_score = 0,
                   !.interpretation = ""]
    ELSE [f EXCEPT !.pc = "returned", !.outcome = r,
                   !.cosine_score = 0, !.normalized_score = 0,
                   !.interpretation = ""]

\* cosine_score = self.calculate_cosine_similarity(vector1, vector2)
Line145(f) ==
    LET c == calculate_cosine_similarity(f.vector1, ComparisonVector(f))
    IN  IF c.kind = "raise"
        THEN Leave(f, [kind |-> "raise", val |-> c.val])
        ELSE [f EXCEPT !.pc = "line148", !.cosine_score = c.val]

\* normalized_score = self.normalize_similarity_score(cosine_score)
Line148(f) ==
    [f EXCEPT !.pc = "line151",
              !.normalized_score = normalize_similarity_score(f.cosine_score)]

\* interpretation = self.interpret_similarity_score(normalized_score)
Line151(f) ==
    [f EXCEPT !.pc = "line157",
              !.interpretation = interpret_similarity_score(f.normalized_score)]

\* return SimilarityResult(score=..., normalized_score=..., interpretation=...)
Line157(f) ==
    Leave(f, [kind |-> "return",
              val |-> SimilarityResult(f.cosine_score, f.normalized_score,
                                       f.interpretation)])

\* if not comparison_vectors: raise ValidationError(...); results = []
Line181(f) ==
    IF Len(f.comparison_vectors) = 0
    THEN [f EXCEPT !.pc = "returned",
                   !.outcome =
                       [kind |-> "raise",
                        val |-> ValidationError(
                                    [text |-> "Comparison vectors list cannot be empty",
                                     args |-> <<>>],
                                    "comparison_vectors", NoDetails)]]
    ELSE [f EXCEPT !.pc = "line185", !.i = 1, !.results = <<>>]

\* for i, comparison_vector in enumerate(comparison_vectors): ... return results
Line185(f) ==
    IF f.i > Len(f.comparison_vectors)
    THEN [f EXCEPT !.pc = "returned",
                   !.outcome = [kind |-> "return", val |-> f.results],
                   !.i = 0, !.results = <<>>]
    ELSE [f EXCEPT !.pc = "line145"]

\* the statement at the frame's position
Statement(f) ==
    CASE f.pc = "line145" -> Line145(f)
      [] f.pc = "line148" -> Line148(f)
      [] f.pc = "line151" -> Line151(f)
      [] f.pc = "line157" -> Line157(f)
      [] f.pc = "line181" -> Line181(f)
      [] f.pc = "line185" -> Line185(f)

\* the one-slot memo of StepMemoizing for vector1, or the empty set
Memo(self, v1) ==
    {m \in self : m.name = "_last" /\ m.value.key = v1}

\* Step keeping the last cosine score on the instance, keyed by vector1 alone
StepMemoizing(self, f) ==
    IF f.pc # "line145"
    THEN [self |-> self, frame |-> Statement(f)]
    ELSE IF Memo(self, f.vector1) # {}
    THEN LET m == CHOOSE m \in Memo(self, f.vector1) : TRUE
         IN  [self |-> self,
              frame |-> [f EXCEPT !.pc = "line148", !.cosine_score = m.value.score]]
    ELSE LET c == calculate_cosine_similarity(f.vector1, ComparisonVector(f))
         IN  [self |-> IF c.kind = "raise" THEN self
                       ELSE {[name |-> "_last",
                              value |-> [key |-> f.vector1, score |-> c.val]]},
              frame |-> Statement(f)]

\* Step handing the cosine score from line 145 to line 148 through an
\* attribute of the instance
StepSharingCosineScore(self, f) ==
    IF f.pc = "line145" /\ Line145(f).pc = "line148"
    THEN [self |-> {[name |-> "_cosine_score", value |-> Line145(f).cosine_score]},
          frame |-> Line145(f)]
    ELSE IF f.pc = "line148"
    THEN LET shared == CHOOSE m \in self : m.name = "_cosine_score"
         IN  [self |-> self,
              frame |-> Line148([f EXCEPT !.cosine_score = shared.value])]
    ELSE [self |-> self, frame |-> Statement(f)]

\* one statement of a method of the service: no statement reads or assigns an
\* attribute of self
Step(self, f) ==
    [self |-> self, frame |-> Statement(f)]

callVars ==
    <<pc, op, vector1, vector2, comparison_vectors, score_arg, outcome, steps,
      scipy_build>>

\* no call of the engine is made
QuietEngine ==
    /\ instance = NoAttributes
    /\ frames = NoCallers
    /\ pc = "call"
    /\ op = "none"
    /\ vector1 = <<>> /\ vector2 = <<>> /\ comparison_vectors = <<>>
    /\ score_arg = 0
    /\ outcome = NoOutcome
    /\ steps = <<>>
    /\ scipy_build = "returns_nan"

engineVars == <<callVars, instance, frames>>

InitService ==
    /\ QuietOutside
    /\ instance = NoAttributes
    /\ frames = NoCallers
    /\ pc = "call"
    /\ op = "none"
    /\ vector1 = <<>> /\ vector2 = <<>> /\ comparison_vectors = <<>>
    /\ score_arg = 0
    /\ outcome = NoOutcome
    /\ steps = <<>>
    /\ scipy_build = "returns_nan"

\* caller c calls service.calculate_similarity(v1, v2)
CallCalculateSimilarity(c) ==
    /\ frames[c].pc \in {"idle", "returned"}
    /\ \E v1 \in ServiceVectors, v2 \in ServiceVectors :
           frames' = [frames EXCEPT ![c] = EnterCalculateSimilarity(v1, v2)]
    /\ UNCHANGED <<instance, callVars, outsideVars>>

\* caller c calls service.calculate_batch_similarities(reference, candidates)
CallCalculateBatchSimilarities(c) ==
    /\ frames[c].pc \in {"idle", "returned"}
    /\ \E reference_vector \in ServiceVectors, candidates \in ServiceBatches :
           frames' = [frames EXCEPT ![c] =
                          EnterCalculateBatchSimilarities(reference_vector, candidates)]
    /\ UNCHANGED <<instance, callVars, outsideVars>>

\* the call of caller c executes its next statement
Execute(c) ==
    LET next == Step(instance, frames[c])
    IN  /\ instance' = next.self
        /\ frames' = [frames EXCEPT ![c] = next.frame]
        /\ UNCHANGED <<callVars, outsideVars>>

ComputeCosineScore(c) == frames[c].pc = "line145" /\ Execute(c)

NormalizeScore(c) == frames[c].pc = "line148" /\ Execute(c)

InterpretScore(c) == frames[c].pc = "line151" /\ Execute(c)

ReturnSimilarityResult(c) == frames[c].pc = "line157" /\ Execute(c)

CheckComparisonVectors(c) == frames[c].pc = "line181" /\ Execute(c)

NextComparisonVector(c) == frames[c].pc = "line185" /\ Execute(c)

NextService ==
    \E c \in Callers :
        \/ CallCalculateSimilarity(c)
        \/ CallCalculateBatchSimilarities(c)
        \/ ComputeCosineScore(c)
        \/ NormalizeScore(c)
        \/ InterpretScore(c)
        \/ ReturnSimilarityResult(c)
        \/ CheckComparisonVectors(c)
        \/ NextComparisonVector(c)

SpecService == InitService /\ [][NextService]_vars

(***************************************************************************)
(* The embedding service (app/services/embedding_service.py).              *)
(***************************************************************************)
\* a text of more than max_tokens * 4 characters and its first max_tokens * 4
\* characters
LongText == "lorem ipsum (40000 characters)"
TruncatedText == "lorem ipsum (32764 characters)"

Texts == {"", " ", "hello", "world", LongText}

\* not text or not text.strip()
Blank(text) == text \in {"", " "}

\* text[:self.max_tokens * 4] when len(text) > self.max_tokens * 4
Truncate(text) == IF text = LongText THEN TruncatedText ELSE text

TextLists == SeqsUpTo(Texts, MaxTexts)

\* what self.client.embeddings.create does: it answers with one embedding per
\* input, in input order, or raises
ProviderReplies == {"ok", "rate_limit", "api_error"}

\* the embedding the provider computes for a text
EmbeddingOf(text) == [embedding_of |-> text]

\* EmbeddingResult.__init__
EmbeddingResult(vector, model, usage_tokens) ==
    [vector |-> vector, model |-> model, usage_tokens |-> usage_tokens]

RECURSIVE ValidTexts(_)
\* the loop over enumerate(texts): blank texts are skipped, long ones truncated
ValidTexts(texts) ==
    IF texts = <<>> THEN <<>>
    ELSE IF Blank(Head(texts)) THEN ValidTexts(Tail(texts))
    ELSE <<Truncate(Head(texts))>> \o ValidTexts(Tail(texts))

\* get_embeddings_batch; embed is the provider's embedding of each text and
\* total_tokens the usage it reports
get_embeddings_batch(texts, reply, embed, total_tokens) ==
    LET valid_texts == ValidTexts(texts)
    IN  IF Len(texts) = 0
        THEN Raise(ValidationError([text |-> "Texts list cannot be empty",
                                    args |-> <<>>], "texts", NoDetails), <<>>)
        ELSE IF Len(valid_texts) = 0
        THEN Raise(ValidationError([text |-> "No valid texts found after filtering",
                                    args |-> <<>>], "texts", NoDetails), <<>>)
        ELSE IF reply = "ok"
        THEN Return([i \in 1..Len(valid_texts) |->
                        EmbeddingResult(embed[valid_texts[i]],
                                        "text-embedding-ada-002",
                                        total_tokens \div Len(valid_texts))],
                    <<"embeddings.create">>)
        ELSE IF reply = "rate_limit"
        THEN Raise(RateLimitError("openai",
                       "operation" :> "batch_embedding_generation"),
                   <<"embeddings.create">>)
        ELSE Raise(EmbeddingError([text |-> "OpenAI embeddings API error",
                                   args |-> <<reply>>],
                                  "operation" :> "batch_embeddings"),
                   <<"embeddings.create">>)

\* the provider's embeddings in the behaviours of the embedding service alone
Embeddings == [text \in Texts \cup {TruncatedText} |-> EmbeddingOf(text)]

\* the usage the provider reports: ten tokens a text
TotalTokens(texts) == 10 * Len(ValidTexts(texts))

InitEmbedding ==
    /\ QuietEngine
    /\ request = Idle /\ metrics = Idle /\ database = Idle
    /\ audio = Idle /\ sessions = Idle
    /\ \E texts \in TextLists, reply \in ProviderReplies :
           embedding = [pc |-> "call", texts |-> texts, reply |-> reply,
                        outcome |-> NoOutcome]

\* a caller awaits embedding_service.get_embeddings_batch(texts)
GetEmbeddingsBatch ==
    /\ embedding.pc = "call"
    /\ LET r == get_embeddings_batch(embedding.texts, embedding.reply, Embeddings,
                                     TotalTokens(embedding.texts))
       IN  embedding' = [embedding EXCEPT !.pc = "done",
                                          !.outcome = [kind |-> r.kind, val |-> r.val]]
    /\ UNCHANGED <<engineVars, request, metrics, database, audio, sessions>>

NextEmbedding == GetEmbeddingsBatch

SpecEmbedding == InitEmbedding /\ [][NextEmbedding]_vars

(***************************************************************************)
(* The similarity endpoint and the exception handlers                      *)
(* (app/api/v1/endpoints/similarity.py, app/core/exception_handlers.py).   *)
(* One request runs the stages of calculate_similarity one after another;  *)
(* what the session service, the audio service and the embedding provider  *)
(* answer is drawn when the request arrives.                               *)
(***************************************************************************)
\* the classes derived from SpeechSimilarityAPIError
APIErrorClasses ==
    {"DatabaseError", "DatabaseConnectionError", "DatabaseTimeoutError",
     "SessionNotFoundError", "SessionValidationError",
     "AudioValidationError", "AudioProcessingError", "TranscriptionError",
     "ExternalServiceError", "OpenAIServiceError", "EmbeddingError",
     "WhisperError", "RateLimitError", "SimilarityError", "ValidationError",
     "ConfigurationError", "SessionError", "AudioError", "ProcessingError"}

\* status_code_mapping with no entry for the ValidationError class
status_code_mapping_without_validation(cls) ==
    CASE cls \in {"DatabaseError", "DatabaseConnectionError",
                  "DatabaseTimeoutError"} -> 503
      [] cls = "SessionNotFoundError" -> 404
      [] cls \in {"SessionValidationError", "AudioValidationError"} -> 422
      [] cls \in {"AudioProcessingError", "TranscriptionError",
                  "ExternalServiceError", "OpenAIServiceError", "EmbeddingError",
                  "WhisperError"} -> 502
      [] cls = "RateLimitError" -> 429
      [] cls \in {"SimilarityError", "ConfigurationError"} -> 500
      [] OTHER -> 500

\* status_code_mapping.get(type(exc), 500)
status_code_mapping(cls) ==
    CASE cls \in {"DatabaseError", "DatabaseConnectionError",
                  "DatabaseTimeoutError"} -> 503
      [] cls = "SessionNotFoundError" -> 404
      [] cls \in {"SessionValidationError", "AudioValidationError",
                  "ValidationError"} -> 422
      [] cls \in {"AudioProcessingError", "TranscriptionError",
                  "ExternalServiceError", "OpenAIServiceError", "EmbeddingError",
                  "WhisperError"} -> 502
      [] cls = "RateLimitError" -> 429
      [] cls \in {"SimilarityError", "ConfigurationError"} -> 500
      [] OTHER -> 500

create_error_response(error_code, message, status_code, details) ==
    [kind |-> "ErrorResponse", status_code |-> status_code,
     content |-> [error_code |-> error_code, message |-> message,
                  details |-> details]]

speech_similarity_api_exception_handler(exc) ==
    create_error_response(exc.error_code, exc.message,
                          status_code_mapping(exc.class), exc.details)

generic_exception_handler(exc) ==
    create_error_response("INTERNAL_SERVER_ERROR",
                          [text |-> "An unexpected error occurred", args |-> <<>>],
                          500, "exception_type" :> exc.class)

\* the handler that the application picks for an exception raised by the
\* endpoint
exception_handler(exc) ==
    IF exc.class \in APIErrorClasses
    THEN speech_similarity_api_exception_handler(exc)
    ELSE generic_exception_handler(exc)

\* what session_service.get_session answers
SessionReplies ==
    {"ok", "SessionNotFoundError", "SessionValidationError", "DatabaseError",
     "DatabaseConnectionError"}

\* what audio_service.process_and_transcribe answers
AudioReplies ==
    {"ok", "AudioValidationError", "AudioProcessingError", "TranscriptionError"}

\* the vectors the provider may answer with
EndpointVectors ==
    {<<>>, <<Float(2)>>, <<Float(-1)>>, <<Float(2), Float(-1)>>, <<NonNumeric>>}

NoException == [class |-> "None"]

NoResponse == [kind |-> "None"]

\* an exception that is not a SpeechSimilarityAPIError
BuiltinException(cls) == [class |-> cls]

\* the request as it arrives: POST /{session_id} with a reference text
Arrived(session_reply, audio_reply, provider_reply, transcribed_vector, reference_vector) ==
    [pc |-> "session_lookup",
     session_id |-> 1,
     reference_text |-> "world",
     session_reply |-> session_reply,
     audio_reply |-> audio_reply,
     provider_reply |-> provider_reply,
     embed |-> ("hello" :> transcribed_vector) @@ ("world" :> reference_vector),
     stages |-> <<>>,
     session_record |-> [audio |-> ""],
     transcribed_text |-> "",
     embedding_results |-> <<>>,
     engine_arguments |-> <<>>,
     similarity_result |-> SimilarityResult(0, 0, ""),
     raised |-> NoException,
     response |-> NoResponse]

\* a stage raises: the request goes to the exception handlers
Fail(req, stage, exc) ==
    [req EXCEPT !.pc = "exception_handler", !.stages = Append(@, stage),
                !.raised = exc]

\* session_record = await session_service.get_session(session_id)
SessionLookupStage(req) ==
    IF req.session_reply = "ok"
    THEN [req EXCEPT !.pc = "transcribe", !.stages = Append(@, "session_lookup"),
                     !.session_record = [audio |-> "UklGRg=="]]
    ELSE Fail(req, "session_lookup",
              IF req.session_reply = "SessionNotFoundError"
              THEN SessionNotFoundError(req.session_id)
              ELSE PlainError(req.session_reply,
                              [text |-> "get_session failed", args |-> <<>>]))

\* transcription_result = await audio_service.process_and_transcribe(...)
TranscribeStage(req) ==
    IF req.audio_reply = "ok"
    THEN [req EXCEPT !.pc = "embed", !.stages = Append(@, "transcribe"),
                     !.transcribed_text = "hello"]
    ELSE Fail(req, "transcribe",
              PlainError(req.audio_reply,
                         [text |-> "process_and_transcribe failed", args |-> <<>>]))

\* embedding_results = await embedding_service.get_embeddings_batch([...]);
\* embedding_results[0], embedding_results[1]
EmbedStage(req) ==
    LET r == get_embeddings_batch(<<req.transcribed_text, req.reference_text>>,
                                  req.provider_reply, req.embed, 20)
    IN  IF r.kind = "raise" THEN Fail(req, "embed", r.val)
        ELSE IF Len(r.val) < 2 THEN Fail(req, "embed", BuiltinException("IndexError"))
        ELSE [req EXCEPT !.pc = "engine", !.stages = Append(@, "embed"),
                         !.embedding_results = r.val]

\* EngineStage handing the reference embedding to the engine first
EngineStageSwapped(req) ==
    LET transcribed_embedding == req.embedding_results[1]
        reference_embedding == req.embedding_results[2]
        r == calculate_similarity(reference_embedding.vector,
                                  transcribed_embedding.vector)
        called == [req EXCEPT !.engine_arguments =
                       <<reference_embedding.vector, transcribed_embedding.vector>>]
    IN  IF r.kind = "raise" THEN Fail(called, "engine", r.val)
        ELSE [called EXCEPT !.pc = "assemble", !.stages = Append(@, "engine"),
                            !.similarity_result = r.val]

\* similarity_result = similarity_service.calculate_similarity(
\*     transcribed_embedding.vector, reference_embedding.vector)
EngineStage(req) ==
    LET transcribed_embedding == req.embedding_results[1]
        reference_embedding == req.embedding_results[2]
        r == calculate_similarity(transcribed_embedding.vector,
                                  reference_embedding.vector)
        called == [req EXCEPT !.engine_arguments =
                       <<transcribed_embedding.vector, reference_embedding.vector>>]
    IN  IF r.kind = "raise" THEN Fail(called, "engine", r.val)
        ELSE [called EXCEPT !.pc = "assemble", !.stages = Append(@, "engine"),
                            !.similarity_result = r.val]

\* response = SimilarityResponse(...); return response
AssembleStage(req) ==
    IF ~SimilarityScoreField(similarity_score(req.similarity_result))
    THEN Fail(req, "assemble", BuiltinException("pydantic.ValidationError"))
    ELSE [req EXCEPT !.pc = "responded", !.stages = Append(@, "assemble"),
                     !.response =
                         [kind |-> "SimilarityResponse", status_code |-> 200,
                          content |->
                              [session_id |-> req.session_id,
                               session_data |-> req.session_record,
                               transcribed_text |-> req.transcribed_text,
                               similarity_score |->
                                   similarity_score(req.similarity_result)]]]

\* the exception handler turns the raised exception into the response
HandlerStage(req) ==
    [req EXCEPT !.pc = "responded", !.response = exception_handler(req.raised)]

InitEndpoint ==
    /\ QuietEngine
    /\ embedding = Idle /\ metrics = Idle /\ database = Idle
    /\ audio = Idle /\ sessions = Idle
    /\ \E session_reply \in SessionReplies, audio_reply \in AudioReplies,
          provider_reply \in ProviderReplies,
          transcribed_vector \in EndpointVectors,
          reference_vector \in EndpointVectors :
           request = Arrived(session_reply, audio_reply, provider_reply,
                             transcribed_vector, reference_vector)

Advance(stage) ==
    /\ request' = stage
    /\ UNCHANGED <<engineVars, embedding, metrics, database, audio, sessions>>

SessionLookup == request.pc = "session_lookup" /\ Advance(SessionLookupStage(request))

ProcessAndTranscribe == request.pc = "transcribe" /\ Advance(TranscribeStage(request))

BatchEmbed == request.pc = "embed" /\ Advance(EmbedStage(request))

SimilarityEngine == request.pc = "engine" /\ Advance(EngineStage(request))

AssembleResponse == request.pc = "assemble" /\ Advance(AssembleStage(request))

HandleException == request.pc = "exception_handler" /\ Advance(HandlerStage(request))

NextEndpoint ==
    \/ SessionLookup
    \/ ProcessAndTranscribe
    \/ BatchEmbed
    \/ SimilarityEngine
    \/ AssembleResponse
    \/ HandleException

SpecEndpoint == InitEndpoint /\ [][NextEndpoint]_vars

(***************************************************************************)
(* The performance metrics (app/core/logging_config.py), as called by the  *)
(* request tracking middleware and the monitoring endpoints.               *)
(***************************************************************************)
\* float('inf') and the finite floats, in milliseconds
Infinity == [inf |-> TRUE, val |-> 0]
Finite(t) == [inf |-> FALSE, val |-> t]

\* min(a, t) and max(a, t) for a stored value a and a processing time t
MinOf(a, t) == IF a.inf \/ t < a.val THEN Finite(t) ELSE a
MaxOf(a, t) == IF ~a.inf /\ t > a.val THEN Finite(t) ELSE a

EmptyDict == [k \in {} |-> 0]

\* d[key] = d.get(key, 0) + 1
Increment(d, key) ==
    [k \in DOMAIN d \cup {key} |->
        IF k = key THEN (IF key \in DOMAIN d THEN d[key] ELSE 0) + 1 ELSE d[k]]

\* PerformanceMetrics.__init__; recorded is the history of the requests
\* recorded since, and last_call the last method called
InitialMetrics ==
    [total |-> 0, by_method |-> EmptyDict, by_status |-> EmptyDict,
     by_endpoint |-> EmptyDict,
     total_time |-> 0, count |-> 0, average |-> 0,
     min |-> Infinity, max |-> Finite(0),
     errors_total |-> 0, by_type |-> EmptyDict,
     recorded |-> <<>>, last_call |-> "__init__"]

\* record_request counting only the statuses from 500 on as errors
record_request_counting_server_errors(m, method, endpoint, status_code, processing_time) ==
    [m EXCEPT !.total = @ + 1,
              !.by_method = Increment(@, method),
              !.by_status = Increment(@, ToString(status_code)),
              !.by_endpoint = Increment(@, endpoint),
              !.total_time = @ + processing_time,
              !.count = @ + 1,
              !.average = (m.total_time + processing_time) \div (m.count + 1),
              !.min = MinOf(@, processing_time),
              !.max = MaxOf(@, processing_time),
              !.errors_total = IF status_code >= 500 THEN @ + 1 ELSE @,
              !.recorded = Append(@, [status_code |-> status_code,
                                      processing_time |-> processing_time]),
              !.last_call = "record_request"]

record_request(m, method, endpoint, status_code, processing_time) ==
    [m EXCEPT !.total = @ + 1,
              !.by_method = Increment(@, method),
              !.by_status = Increment(@, ToString(status_code)),
              !.by_endpoint = Increment(@, endpoint),
              !.total_time = @ + processing_time,
              !.count = @ + 1,
              !.average = (m.total_time + processing_time) \div (m.count + 1),
              !.min = MinOf(@, processing_time),
              !.max = MaxOf(@, processing_time),
              !.errors_total = IF status_code >= 400 THEN @ + 1 ELSE @,
              !.recorded = Append(@, [status_code |-> status_code,
                                      processing_time |-> processing_time]),
              !.last_call = "record_request"]

record_error(m, error_type) ==
    [m EXCEPT !.by_type = Increment(@, error_type),
              !.last_call = "record_error"]

\* get_metrics: an infinite min is replaced by 0.0 in the stored metrics before
\* the copy is returned
get_metrics(m) ==
    [m EXCEPT !.min = IF @ = Infinity THEN Finite(0) ELSE @,
              !.last_call = "get_metrics"]

\* reset_metrics: self.__init__()
reset_metrics(m) == [InitialMetrics EXCEPT !.last_call = "reset_metrics"]

\* the requests the middleware records
MetricRequests ==
    {[method |-> "GET", endpoint |-> "/api/v1/health", status_code |-> 200,
      processing_time |-> 2],
     [method |-> "POST", endpoint |-> "/api/v1/similarity/1", status_code |-> 200,
      processing_time |-> 5],
     [method |-> "POST", endpoint |-> "/api/v1/similarity/1", status_code |-> 422,
      processing_time |-> 3],
     [method |-> "GET", endpoint |-> "/api/v1/sessions/1", status_code |-> 500,
      processing_time |-> 1]}

RECURSIVE SumOf(_)
\* the sum of the counts of a dictionary
SumOf(d) ==
    IF DOMAIN d = {} THEN 0
    ELSE LET k == CHOOSE k \in DOMAIN d : TRUE
         IN  d[k] + SumOf([j \in DOMAIN d \ {k} |-> d[j]])

InitMetrics ==
    /\ QuietEngine
    /\ request = Idle /\ embedding = Idle /\ database = Idle
    /\ audio = Idle /\ sessions = Idle
    /\ metrics = InitialMetrics

\* the middleware records a completed request
RecordRequest ==
    /\ Len(metrics.recorded) < MaxRequests
    /\ \E r \in MetricRequests :
           metrics' = record_request(metrics, r.method, r.endpoint, r.status_code,
                                     r.processing_time)
    /\ UNCHANGED <<engineVars, request, embedding, database, audio, sessions>>

\* the middleware records the exception of a failed request
RecordError ==
    /\ SumOf(metrics.by_type) < MaxErrors
    /\ \E error_type \in {"IndexError", "RuntimeError"} :
           metrics' = record_error(metrics, error_type)
    /\ UNCHANGED <<engineVars, request, embedding, database, audio, sessions>>

\* a monitoring endpoint reads the metrics
GetMetrics ==
    /\ metrics' = get_metrics(metrics)
    /\ UNCHANGED <<engineVars, request, embedding, database, audio, sessions>>

\* a monitoring endpoint resets the metrics
ResetMetrics ==
    /\ metrics' = reset_metrics(metrics)
    /\ UNCHANGED <<engineVars, request, embedding, database, audio, sessions>>

NextMetrics ==
    \/ RecordRequest
    \/ RecordError
    \/ GetMetrics
    \/ ResetMetrics

SpecMetrics == InitMetrics /\ [][NextMetrics]_vars

(***************************************************************************)
(* The database client (app/core/database.py): coroutines of one event     *)
(* loop, each step running from one await to the next.                     *)
(***************************************************************************)
\* the coroutines that use the client concurrently
DbTasks == {"t1", "t2"}

\* self._pool = None; the pools are numbered from 1 in the order of creation
NoPool == 0

\* a coroutine that is not running
DbIdle == [pc |-> "idle", op |-> "none", pool |-> NoPool]

\* DatabaseClient.__init__; created counts the pools asyncpg has created, open
\* holds those not closed, closing is the pool whose close() disconnect awaits
InitialDatabase ==
    [_pool |-> NoPool, _is_connected |-> FALSE,
     created |-> 0, open |-> {}, closing |-> NoPool,
     disconnect |-> "idle",
     tasks |-> [t \in DbTasks |-> DbIdle]]

InitDatabase ==
    /\ QuietEngine
    /\ request = Idle /\ embedding = Idle /\ metrics = Idle
    /\ audio = Idle /\ sessions = Idle
    /\ database = InitialDatabase

\* where a coroutine that holds the pool goes on: get_pool returns it,
\* execute_query and execute_command await pool.acquire()
AfterGetPool(operation) == IF operation = "get_pool" THEN "returned" ELSE "line54"

\* a coroutine calls get_pool, directly or through get_connection: with a pool
\* it goes on with it, without one it awaits asyncpg.create_pool
CallGetPool(t) ==
    /\ database.tasks[t].pc = "idle"
    /\ \E operation \in {"get_pool", "execute_query", "execute_command"} :
           database' =
               [database EXCEPT !.tasks[t] =
                   IF database._pool = NoPool
                   THEN [pc |-> "line32", op |-> operation, pool |-> NoPool]
                   ELSE [pc |-> AfterGetPool(operation), op |-> operation,
                         pool |-> database._pool]]
    /\ UNCHANGED <<engineVars, request, embedding, metrics, audio, sessions>>

\* asyncpg.create_pool returns a new pool: _create_pool returns it, get_pool
\* assigns it to self._pool and returns self._pool
CreatePoolReturns(t) ==
    /\ database.tasks[t].pc = "line32"
    /\ database.created < MaxPools
    /\ LET pool == database.created + 1
       IN  database' =
               [database EXCEPT !.created = pool,
                                !.open = @ \cup {pool},
                                !._is_connected = TRUE,
                                !._pool = pool,
                                !.tasks[t].pc = AfterGetPool(database.tasks[t].op),
                                !.tasks[t].pool = pool]
    /\ UNCHANGED <<engineVars, request, embedding, metrics, audio, sessions>>

\* asyncpg.create_pool raises: _create_pool re-raises, the caller fails
CreatePoolRaises(t) ==
    /\ database.tasks[t].pc = "line32"
    /\ database' = [database EXCEPT !._is_connected = FALSE,
                                    !.tasks[t].pc = "raised"]
    /\ UNCHANGED <<engineVars, request, embedding, metrics, audio, sessions>>

\* the connection is acquired from the pool the coroutine holds and the
\* statement runs; a closed pool refuses
UseConnection(t) ==
    /\ database.tasks[t].pc = "line54"
    /\ database' = [database EXCEPT !.tasks[t].pc =
                       IF database.tasks[t].pool \in database.open
                       THEN "returned" ELSE "raised"]
    /\ UNCHANGED <<engineVars, request, embedding, metrics, audio, sessions>>

\* the caller takes the result and the coroutine ends
DbTaskEnds(t) ==
    /\ database.tasks[t].pc \in {"returned", "raised"}
    /\ database' = [database EXCEPT !.tasks[t] = DbIdle]
    /\ UNCHANGED <<engineVars, request, embedding, metrics, audio, sessions>>

\* disconnect is called: with a pool it awaits self._pool.close()
CallDisconnect ==
    /\ database.disconnect = "idle"
    /\ database._pool # NoPool
    /\ database' = [database EXCEPT !.disconnect = "line88",
                                    !.closing = database._pool]
    /\ UNCHANGED <<engineVars, request, embedding, metrics, audio, sessions>>

\* close() returns: self._pool = None, self._is_connected = False
PoolClosed ==
    /\ database.disconnect = "line88"
    /\ database' = [database EXCEPT !.open = @ \ {database.closing},
                                    !.closing = NoPool,
                                    !._pool = NoPool,
                                    !._is_connected = FALSE,
                                    !.disconnect = "idle"]
    /\ UNCHANGED <<engineVars, request, embedding, metrics, audio, sessions>>

NextDatabase ==
    \/ \E t \in DbTasks : CallGetPool(t)
    \/ \E t \in DbTasks : CreatePoolReturns(t)
    \/ \E t \in DbTasks : CreatePoolRaises(t)
    \/ \E t \in DbTasks : UseConnection(t)
    \/ \E t \in DbTasks : DbTaskEnds(t)
    \/ CallDisconnect
    \/ PoolClosed

SpecDatabase == InitDatabase /\ [][NextDatabase]_vars

(***************************************************************************)
(* The audio service (app/services/audio_service.py): one call of          *)
(* process_and_transcribe, with the faults of its environment drawn when   *)
(* the call starts.                                                        *)
(***************************************************************************)
\* what the session's audio column holds; "wav" and "mp3" pass the checks of
\* lines 73-108 with that format detected
AudioInputs == {"blank", "invalid_base64", "too_small", "wav", "mp3"}

\* AudioSegment.from_file in decode_base64_audio
DecodeLoads == {"ok", "CouldntDecodeError", "OSError"}

\* AudioSegment.from_file and audio.export in _convert_to_mono_wav
ConversionSteps == {"ok", "raise"}

\* client.audio.transcriptions.create: a transcript with text, one with blank
\* text, or an exception
WhisperReplies == {"text", "blank", "openai.APIError", "openai.RateLimitError",
                   "openai.APIConnectionError", "TimeoutError"}

\* the exceptions of the openai library that are instances of openai.APIError
OpenAIAPIErrors == {"openai.APIError", "openai.RateLimitError",
                    "openai.APIConnectionError"}

\* temp_path = None; the temporary files are numbered from 1 in the order of
\* creation
NoPath == 0

\* the call as it starts
AudioCall(base64_audio, pydub, channels, disk, decode_load, convert_load, export, whisper) ==
    [pc |-> "line344",
     base64_audio |-> base64_audio, PYDUB_AVAILABLE |-> pydub,
     recorded_channels |-> channels, disk |-> disk, decode_load |-> decode_load,
     convert_load |-> convert_load, export |-> export, whisper |-> whisper,
     format |-> "None", channels |-> 0,
     files |-> {}, temp_path |-> NoPath,
     provider_reply |-> "None", exc |-> NoException, result |-> "None"]

InitAudio ==
    /\ QuietEngine
    /\ request = Idle /\ embedding = Idle /\ metrics = Idle
    /\ database = Idle /\ sessions = Idle
    /\ \E base64_audio \in AudioInputs, pydub \in BOOLEAN, channels \in {1, 2},
          disk \in {"ok", "full"}, decode_load \in DecodeLoads,
          convert_load \in ConversionSteps, export \in ConversionSteps,
          whisper \in WhisperReplies :
           audio = AudioCall(base64_audio, pydub, channels, disk, decode_load,
                             convert_load, export, whisper)

\* decode_base64_audio, lines 70-113 with the handlers of lines 149-153: the
\* checks, then the temporary file; a failed write leaves the file behind
DecodeBase64Audio ==
    /\ audio.pc = "line344"
    /\ audio' =
           IF audio.base64_audio \notin {"wav", "mp3"}
           THEN [audio EXCEPT !.pc = "line352",
                    !.exc = PlainError("AudioValidationError",
                                [text |-> "Audio data is not valid",
                                 args |-> <<audio.base64_audio>>])]
           ELSE IF audio.disk = "full"
           THEN [audio EXCEPT !.pc = "line352",
                    !.files = @ \cup {1},
                    !.exc = PlainError("AudioProcessingError",
                                [text |-> "Failed to decode audio data",
                                 args |-> <<"OSError">>])]
           ELSE [audio EXCEPT !.pc = "line115",
                    !.format = audio.base64_audio,
                    !.files = @ \cup {1},
                    !.temp_path = 1]
    /\ UNCHANGED <<engineVars, request, embedding, metrics, database, sessions>>

\* decode_base64_audio, lines 115-147: the file is loaded when pydub is
\* available, and unlinked in the finally clause
ValidateWithPydub ==
    /\ audio.pc = "line115"
    /\ LET unlinked == [audio EXCEPT !.files = @ \ {audio.temp_path},
                                     !.temp_path = NoPath]
       IN  audio' =
               IF ~audio.PYDUB_AVAILABLE
               THEN [unlinked EXCEPT !.pc = "line347", !.channels = 1]
               ELSE IF audio.decode_load = "ok"
               THEN [unlinked EXCEPT !.pc = "line347",
                                     !.channels = audio.recorded_channels]
               ELSE IF audio.decode_load = "CouldntDecodeError"
               THEN [unlinked EXCEPT !.pc = "line352",
                        !.exc = PlainError("AudioValidationError",
                                    [text |-> "Invalid or corrupted audio file",
                                     args |-> <<audio.decode_load>>])]
               ELSE [unlinked EXCEPT !.pc = "line352",
                        !.exc = PlainError("AudioProcessingError",
                                    [text |-> "Failed to process audio file",
                                     args |-> <<audio.decode_load>>])]
    /\ UNCHANGED <<engineVars, request, embedding, metrics, database, sessions>>

\* transcribe_audio, lines 196-209: the temporary file for the provider
CreateTranscriptionFile ==
    /\ audio.pc = "line347"
    /\ audio' = [audio EXCEPT !.pc = "line212",
                              !.files = @ \cup {2},
                              !.temp_path = 2]
    /\ UNCHANGED <<engineVars, request, embedding, metrics, database, sessions>>

\* transcribe_audio, lines 212-215, with _convert_to_mono_wav: the output file
\* is created before the export, the input is unlinked after it
ConvertToMonoWav ==
    /\ audio.pc = "line212"
    /\ audio' =
           IF ~(audio.PYDUB_AVAILABLE
                /\ (audio.channels > 1 \/ audio.format # "wav"))
           THEN [audio EXCEPT !.pc = "line220"]
           ELSE IF audio.convert_load = "raise"
           THEN [audio EXCEPT !.pc = "line251",
                    !.exc = PlainError("AudioProcessingError",
                                [text |-> "Audio conversion failed",
                                 args |-> <<"from_file">>])]
           ELSE IF audio.export = "raise"
           THEN [audio EXCEPT !.pc = "line251",
                    !.files = @ \cup {3},
                    !.exc = PlainError("AudioProcessingError",
                                [text |-> "Audio conversion failed",
                                 args |-> <<"export">>])]
           ELSE [audio EXCEPT !.pc = "line220",
                    !.files = (@ \cup {3}) \ {audio.temp_path},
                    !.temp_path = 3]
    /\ UNCHANGED <<engineVars, request, embedding, metrics, database, sessions>>

\* transcribe_audio, lines 217-249: the call of the provider
CallWhisper ==
    /\ audio.pc = "line220"
    /\ audio' =
           IF audio.whisper = "text"
           THEN [audio EXCEPT !.pc = "line251", !.provider_reply = audio.whisper,
                              !.result = "hello"]
           ELSE IF audio.whisper = "blank"
           THEN [audio EXCEPT !.pc = "line251", !.provider_reply = audio.whisper,
                    !.exc = PlainError("TranscriptionError",
                                [text |-> "Whisper returned empty transcription",
                                 args |-> <<>>])]
           ELSE [audio EXCEPT !.pc = "line251", !.provider_reply = audio.whisper,
                              !.exc = BuiltinException(audio.whisper)]
    /\ UNCHANGED <<engineVars, request, embedding, metrics, database, sessions>>

\* the except clauses of transcribe_audio, lines 251-264, in their order:
\* every instance of openai.APIError is caught by the clause of line 253
TranscribeHandlers(exc) ==
    IF exc.class \in {"None", "TranscriptionError"} THEN exc
    ELSE IF exc.class \in OpenAIAPIErrors
    THEN WhisperError([text |-> "OpenAI API error", args |-> <<exc.class>>],
                      "error_type" :> "api_error")
    ELSE PlainError("TranscriptionError",
                    [text |-> "Transcription failed", args |-> <<exc.class>>])

\* transcribe_audio, lines 251-271: the handlers, then the finally clause
\* unlinks temp_path
TranscribeAudioExits ==
    /\ audio.pc = "line251"
    /\ audio' = [audio EXCEPT !.pc = "line352",
                              !.exc = TranscribeHandlers(audio.exc),
                              !.files = @ \ {audio.temp_path},
                              !.temp_path = NoPath]
    /\ UNCHANGED <<engineVars, request, embedding, metrics, database, sessions>>

\* the except clauses of process_and_transcribe, lines 352-356
PipelineHandlers(exc) ==
    IF exc.class \in {"None", "AudioValidationError", "AudioProcessingError",
                      "TranscriptionError"}
    THEN exc
    ELSE PlainError("AudioProcessingError",
                    [text |-> "Processing pipeline failed", args |-> <<exc.class>>])

\* process_and_transcribe returns the transcription or raises
ProcessAndTranscribeExits ==
    /\ audio.pc = "line352"
    /\ audio' = [audio EXCEPT !.pc = "done", !.exc = PipelineHandlers(audio.exc)]
    /\ UNCHANGED <<engineVars, request, embedding, metrics, database, sessions>>

NextAudio ==
    \/ DecodeBase64Audio
    \/ ValidateWithPydub
    \/ CreateTranscriptionFile
    \/ ConvertToMonoWav
    \/ CallWhisper
    \/ TranscribeAudioExits
    \/ ProcessAndTranscribeExits

SpecAudio == InitAudio /\ [][NextAudio]_vars

(***************************************************************************)
(* The session service (app/services/session_service.py) over the session  *)
(* repository: coroutines of one event loop and one table of sessions.     *)
(***************************************************************************)
\* the coroutines that call the service concurrently
SessionTasks == {"s1", "s2"}

\* the session ids the callers pass
SessionIds == {-1, 0, 1, 2}

\* the audio column of a row: NULL, blank, or base64 data
AudioColumns == {"None", "", " ", "UklGRiQAAABXQVZF"}

\* not session.audio or not session.audio.strip()
NoAudio(column) == column = "None" \/ Blank(column)

\* the tables: the rows by id, each with its audio column
SessionTables == UNION {[ids -> AudioColumns] : ids \in SUBSET {1, 2}}

\* the words of str(e) for the exceptions the database client raises
DatabaseFaults ==
    {<<"Connection", "refused">>, <<"query", "timeout">>,
     <<"relation", "sessions", "does", "not", "exist">>}

\* word.lower()
Lower(word) == IF word = "Connection" THEN "connection" ELSE word

\* "connection" in str(e).lower() or "timeout" in str(e).lower()
ConnectionOrTimeout(message) ==
    \E i \in DOMAIN message : Lower(message[i]) \in {"connection", "timeout"}

\* what a call of the repository gives: nothing yet, a row, no row, the
\* status of a DELETE, or an exception
NoReply == [kind |-> "none", audio |-> "None", message |-> <<>>]
Row(column) == [kind |-> "row", audio |-> column, message |-> <<>>]
NoRow == [kind |-> "no_row", audio |-> "None", message |-> <<>>]
Deleted(present) == [kind |-> IF present THEN "DELETE 1" ELSE "DELETE 0",
                     audio |-> "None", message |-> <<>>]
Fault(message) == [kind |-> "fault", audio |-> "None", message |-> message]

FaultReplies == {Fault(message) : message \in DatabaseFaults}

\* SELECT ... WHERE id = $1 on the table
Select(table, session_id) ==
    IF session_id \in DOMAIN table THEN Row(table[session_id]) ELSE NoRow

\* an exception of the session or database family with its details
DetailedError(cls, message, details) ==
    [PlainError(cls, message) EXCEPT !.details = details]

\* get_session returning the record whatever its audio column holds
get_session_without_audio_check(session_id, reply) ==
    IF session_id <= 0
    THEN Raise(PlainError("SessionValidationError",
                   [text |-> "Session ID must be a positive integer",
                    args |-> <<>>]), <<>>)
    ELSE IF reply.kind = "fault"
    THEN Raise(DetailedError(
                   IF ConnectionOrTimeout(reply.message)
                   THEN "DatabaseConnectionError" ELSE "DatabaseError",
                   [text |-> "str(e)", args |-> reply.message],
                   "session_id" :> session_id), <<>>)
    ELSE IF reply.kind = "no_row"
    THEN Raise(SessionNotFoundError(session_id), <<>>)
    ELSE Return([id |-> session_id, audio |-> reply.audio], <<>>)

\* get_session for a session_id and the reply of repository.get_by_id (not
\* called when session_id <= 0)
get_session(session_id, reply) ==
    IF session_id <= 0
    THEN Raise(PlainError("SessionValidationError",
                   [text |-> "Session ID must be a positive integer",
                    args |-> <<>>]), <<>>)
    ELSE IF reply.kind = "fault"
    THEN Raise(DetailedError(
                   IF ConnectionOrTimeout(reply.message)
                   THEN "DatabaseConnectionError" ELSE "DatabaseError",
                   [text |-> "str(e)", args |-> reply.message],
                   "session_id" :> session_id), <<>>)
    ELSE IF reply.kind = "no_row"
    THEN Raise(SessionNotFoundError(session_id), <<>>)
    ELSE IF NoAudio(reply.audio)
    THEN Raise(DetailedError("SessionValidationError",
                   [text |-> "Session has no audio data", args |-> <<session_id>>],
                   "session_id" :> session_id), <<>>)
    ELSE Return([id |-> session_id, audio |-> reply.audio], <<>>)

\* a coroutine that is not running; queries counts its calls of the
\* repository, reply is the last answer of the repository
SessionIdle ==
    [pc |-> "idle", op |-> "none", session_id |-> 0, queries |-> 0,
     reply |-> NoReply, outcome |-> NoOutcome]

InitSession ==
    /\ QuietEngine
    /\ request = Idle /\ embedding = Idle /\ metrics = Idle
    /\ database = Idle /\ audio = Idle
    /\ \E table \in SessionTables :
           sessions = [table |-> table,
                       tasks |-> [t \in SessionTasks |-> SessionIdle]]

\* get_session is called: a session_id <= 0 is refused at once, otherwise the
\* coroutine awaits repository.get_by_id
CallGetSession(t) ==
    /\ sessions.tasks[t].pc = "idle"
    /\ \E session_id \in SessionIds :
           sessions' =
               [sessions EXCEPT !.tasks[t] =
                   IF session_id <= 0
                   THEN [SessionIdle EXCEPT !.pc = "done", !.op = "get_session",
                            !.session_id = session_id,
                            !.outcome = get_session(session_id, NoReply)]
                   ELSE [SessionIdle EXCEPT !.pc = "line47", !.op = "get_session",
                            !.session_id = session_id]]
    /\ UNCHANGED <<engineVars, request, embedding, metrics, database, audio>>

\* repository.get_by_id returns the row, returns None or raises; get_session
\* goes on to its end
GetByIdAnswers(t) ==
    /\ sessions.tasks[t].pc = "line47"
    /\ \E reply \in {Select(sessions.table, sessions.tasks[t].session_id)}
                        \cup FaultReplies :
           sessions' =
               [sessions EXCEPT !.tasks[t].pc = "done",
                    !.tasks[t].queries = @ + 1,
                    !.tasks[t].reply = reply,
                    !.tasks[t].outcome =
                        get_session(sessions.tasks[t].session_id, reply)]
    /\ UNCHANGED <<engineVars, request, embedding, metrics, database, audio>>

\* delete_session is called: a session_id <= 0 is refused at once, otherwise
\* the coroutine awaits repository.exists
CallDeleteSession(t) ==
    /\ sessions.tasks[t].pc = "idle"
    /\ \E session_id \in SessionIds :
           sessions' =
               [sessions EXCEPT !.tasks[t] =
                   IF session_id <= 0
                   THEN [SessionIdle EXCEPT !.pc = "done",
                            !.op = "delete_session",
                            !.session_id = session_id,
                            !.outcome =
                                Raise(PlainError("SessionValidationError",
                                    [text |-> "Session ID must be a positive integer",
                                     args |-> <<>>]), <<>>)]
                   ELSE [SessionIdle EXCEPT !.pc = "line190",
                            !.op = "delete_session",
                            !.session_id = session_id]]
    /\ UNCHANGED <<engineVars, request, embedding, metrics, database, audio>>

\* repository.exists answers: without a row SessionNotFoundError is raised,
\* with one the coroutine awaits repository.delete; an exception is re-raised
ExistsAnswers(t) ==
    /\ sessions.tasks[t].pc = "line190"
    /\ \E reply \in {Select(sessions.table, sessions.tasks[t].session_id)}
                        \cup FaultReplies :
           sessions' =
               [sessions EXCEPT !.tasks[t].queries = @ + 1,
                    !.tasks[t].reply = reply,
                    !.tasks[t].pc = IF reply.kind = "row" THEN "line193" ELSE "done",
                    !.tasks[t].outcome =
                        IF reply.kind = "row" THEN NoOutcome
                        ELSE IF reply.kind = "no_row"
                        THEN Raise(SessionNotFoundError(
                                       <<"Session not found with ID:",
                                         sessions.tasks[t].session_id>>), <<>>)
                        ELSE Raise(BuiltinException("PostgresError"), <<>>)]
    /\ UNCHANGED <<engineVars, request, embedding, metrics, database, audio>>

\* repository.delete answers: the DELETE removes the row if it is still there
\* and delete_session returns what the repository returns
DeleteAnswers(t) ==
    /\ sessions.tasks[t].pc = "line193"
    /\ LET session_id == sessions.tasks[t].session_id
           present == session_id \in DOMAIN sessions.table
       IN  \/ sessions' =
                  [sessions EXCEPT
                       !.table = [id \in DOMAIN @ \ {session_id} |-> @[id]],
                       !.tasks[t].pc = "done",
                       !.tasks[t].queries = @ + 1,
                       !.tasks[t].reply = Deleted(present),
                       !.tasks[t].outcome = Return(present, <<>>)]
           \/ \E reply \in FaultReplies :
                  sessions' =
                      [sessions EXCEPT
                           !.tasks[t].pc = "done",
                           !.tasks[t].queries = @ + 1,
                           !.tasks[t].reply = reply,
                           !.tasks[t].outcome =
                               Raise(BuiltinException("PostgresError"), <<>>)]
    /\ UNCHANGED <<engineVars, request, embedding, metrics, database, audio>>

\* the caller takes the result and the coroutine ends
SessionTaskEnds(t) ==
    /\ sessions.tasks[t].pc = "done"
    /\ sessions' = [sessions EXCEPT !.tasks[t] = SessionIdle]
    /\ UNCHANGED <<engineVars, request, embedding, metrics, database, audio>>

NextSession ==
    \/ \E t \in SessionTasks : CallGetSession(t)
    \/ \E t \in SessionTasks : GetByIdAnswers(t)
    \/ \E t \in SessionTasks : CallDeleteSession(t)
    \/ \E t \in SessionTasks : ExistsAnswers(t)
    \/ \E t \in SessionTasks : DeleteAnswers(t)
    \/ \E t \in SessionTasks : SessionTaskEnds(t)

SpecSession == InitSession /\ [][NextSession]_vars

(***************************************************************************)
(* Vocabulary of the properties.                                           *)
(***************************************************************************)
Done(operation) == pc = "done" /\ op = operation

Raised(cls) == outcome.kind = "raise" /\ outcome.val.class = cls

TierLabels ==
    {"Very High Similarity", "High Similarity", "Moderate-High Similarity",
     "Moderate Similarity", "Low-Moderate Similarity", "Low Similarity",
     "Very Low Similarity"}

\* the table of section 4.4: inclusive lower bound and label
TierTable ==
    <<[bound |-> 900000, label |-> "Very High Similarity"],
      [bound |-> 800000, label |-> "High Similarity"],
      [bound |-> 700000, label |-> "Moderate-High Similarity"],
      [bound |-> 600000, label |-> "Moderate Similarity"],
      [bound |-> 500000, label |-> "Low-Moderate Similarity"],
      [bound |-> 300000, label |-> "Low Similarity"],
      [bound |-> 0, label |-> "Very Low Similarity"]>>

\* the label of the highest lower bound not exceeding n, for n >= 0
TierLabel(n) ==
    LET eligible == {k \in DOMAIN TierTable : TierTable[k].bound <= n}
        best == CHOOSE k \in eligible :
                    \A j \in eligible : TierTable[j].bound <= TierTable[k].bound
    IN  TierTable[best].label

\* normalized_score == (raw_score + 1.0) / 2.0, clamped to [0.0, 1.0]
NormalizedInvariant(r) ==
    LET half == (r.score + SCALE) \div 2
    IN  r.normalized_score = (IF half < 0 THEN 0 ELSE IF half > SCALE THEN SCALE ELSE half)

\* candidate i of the batch is one whose comparison with the reference raises
CandidateFails(i) ==
    calculate_similarity(vector1, comparison_vectors[i]).kind = "raise"

\* candidate i is structurally invalid against the reference vector
CandidateInvalid(i) ==
    \/ Len(vector1) = 0
    \/ Len(comparison_vectors[i]) = 0
    \/ Len(comparison_vectors[i]) # Len(vector1)

BatchReturned == Done("calculate_batch_similarities") /\ outcome.kind = "return"
CompareReturned == Done("calculate_similarity") /\ outcome.kind = "return"

\* every SimilarityResult the finished call handed to its caller
ReturnedResults ==
    IF CompareReturned THEN {outcome.val}
    ELSE IF BatchReturned THEN {outcome.val[i] : i \in DOMAIN outcome.val}
    ELSE {}

\* the results of comparisons that succeeded: the result of compare, and the
\* batch slots of the candidates whose comparison did not raise
SuccessfulResults ==
    IF CompareReturned THEN {outcome.val}
    ELSE IF BatchReturned
    THEN {outcome.val[i] : i \in {j \in DOMAIN outcome.val : ~CandidateFails(j)}}
    ELSE {}

(***************************************************************************)
(* Properties of the batch comparator.                                     *)
(***************************************************************************)
\* C1: a batch over a non-empty candidate list never raises; the slot of every
\* candidate whose comparison raises holds (0.0, 0.0, "Calculation Failed"),
\* and the slot of every other candidate holds a normal, tier-labelled result.
C1_BatchIsolation ==
    (Done("calculate_batch_similarities") /\ Len(comparison_vectors) > 0) =>
        /\ outcome.kind = "return"
        /\ \A i \in 1..Len(comparison_vectors) :
            /\ i \in DOMAIN outcome.val
            /\ IF CandidateFails(i)
               THEN outcome.val[i] = [score |-> 0, normalized_score |-> 0,
                                      interpretation |-> "Calculation Failed"]
               ELSE outcome.val[i].interpretation \in TierLabels

\* a finished batch whose first comparison failed and whose second succeeded
C1_Witness ==
    /\ BatchReturned
    /\ Len(comparison_vectors) = 2
    /\ CandidateFails(1) /\ ~CandidateFails(2)
    /\ outcome.val[1].interpretation = "Calculation Failed"
    /\ outcome.val[2].interpretation = "Very High Similarity"

\* C2: a batch over n >= 1 candidates returns exactly n results, and position i
\* holds the result of compare(reference, candidate i) whenever that succeeds.
C2_BatchOrderPreserved ==
    (Done("calculate_batch_similarities") /\ Len(comparison_vectors) > 0) =>
        /\ outcome.kind = "return"
        /\ Len(outcome.val) = Len(comparison_vectors)
        /\ \A i \in 1..Len(comparison_vectors) :
            LET r == calculate_similarity(vector1, comparison_vectors[i])
            IN  r.kind = "return" => outcome.val[i] = r.val

\* a finished batch of two successful comparisons with different scores
C2_Witness ==
    /\ BatchReturned
    /\ Len(comparison_vectors) = 2
    /\ ~CandidateFails(1) /\ ~CandidateFails(2)
    /\ outcome.val[1].score < outcome.val[2].score

(***************************************************************************)
(* Error surfacing.                                                        *)
(***************************************************************************)
\* C3 as stated: structurally invalid input (an empty vector, a dimension
\* mismatch, an empty batch) always reaches the caller as a ValidationError, for
\* compare and for compareBatch, also when it is the reference vector or one
\* candidate of a batch that is invalid.
C3_ValidationAlwaysSurfaced ==
    /\ (Done("calculate_similarity")
        /\ (Len(vector1) = 0 \/ Len(vector2) = 0 \/ Len(vector1) # Len(vector2)))
       => Raised("ValidationError")
    /\ (Done("calculate_batch_similarities")
        /\ (\/ Len(comparison_vectors) = 0
            \/ \E i \in 1..Len(comparison_vectors) : CandidateInvalid(i)))
       => Raised("ValidationError")

\* C3 amended: compare surfaces the ValidationError of an empty vector or a
\* dimension mismatch and compareBatch that of an empty batch; in a non-empty
\* batch an invalid reference vector or candidate is not surfaced, the slot of
\* each candidate it affects holds the "Calculation Failed" result.
C3_ValidationSurfacedExceptBatchSlots ==
    /\ (Done("calculate_similarity")
        /\ (Len(vector1) = 0 \/ Len(vector2) = 0 \/ Len(vector1) # Len(vector2)))
       => Raised("ValidationError")
    /\ (Done("calculate_batch_similarities") /\ Len(comparison_vectors) = 0)
       => Raised("ValidationError")
    /\ (Done("calculate_batch_similarities") /\ Len(comparison_vectors) > 0)
       => /\ outcome.kind = "return"
          /\ \A i \in 1..Len(comparison_vectors) :
                CandidateInvalid(i) => outcome.val[i] = CalculationFailed

\* a finished batch whose first candidate has another dimension than the
\* reference and whose second candidate is empty: neither error was surfaced
C3_Witness ==
    /\ BatchReturned
    /\ Len(vector1) = 1
    /\ Len(comparison_vectors) = 2
    /\ Len(comparison_vectors[1]) = 2
    /\ Len(comparison_vectors[2]) = 0
    /\ outcome.val = <<CalculationFailed, CalculationFailed>>

(***************************************************************************)
(* Invariants of SimilarityResult.                                         *)
(***************************************************************************)
\* C4 as stated: every returned SimilarityResult, from compare and in every
\* slot of a batch, has normalized_score = (raw_score + 1.0) / 2.0 clamped to
\* [0.0, 1.0].
C4_NormalizedInvariantEverywhere ==
    \A r \in ReturnedResults : NormalizedInvariant(r)

\* C4 amended: the result of compare and every batch slot whose comparison
\* succeeded have normalized_score = (raw_score + 1.0) / 2.0 clamped to
\* [0.0, 1.0]; a slot whose comparison failed has raw_score 0.0 and
\* normalized_score 0.0.
C4_NormalizedInvariantOfSuccesses ==
    /\ \A r \in SuccessfulResults : NormalizedInvariant(r)
    /\ BatchReturned =>
        \A i \in DOMAIN outcome.val :
            CandidateFails(i) => outcome.val[i].score = 0
                                 /\ outcome.val[i].normalized_score = 0

\* a finished batch with a successful slot strictly inside the range and a
\* failed slot
C4_Witness ==
    /\ BatchReturned
    /\ Len(comparison_vectors) = 2
    /\ ~CandidateFails(1) /\ CandidateFails(2)
    /\ outcome.val[1].score > 0 /\ outcome.val[1].score < SCALE
    /\ outcome.val[1].normalized_score > 500000
    /\ outcome.val[1].normalized_score < SCALE

\* C5 as stated: every returned SimilarityResult carries one of the seven tier
\* labels, and two returned results with equal normalized_score carry the same
\* interpretation.
C5_InterpretationOfEveryResult ==
    /\ \A r \in ReturnedResults : r.interpretation \in TierLabels
    /\ \A r1, r2 \in ReturnedResults :
          r1.normalized_score = r2.normalized_score
              => r1.interpretation = r2.interpretation

\* C5 amended: the result of compare and every batch slot whose comparison
\* succeeded carry the tier label that the table assigns to their
\* normalized_score; a slot whose comparison failed carries
\* "Calculation Failed", which is none of the seven.
C5_InterpretationOfSuccesses ==
    /\ \A r \in SuccessfulResults :
          /\ r.interpretation \in TierLabels
          /\ r.interpretation = TierLabel(r.normalized_score)
    /\ BatchReturned =>
        \A i \in DOMAIN outcome.val :
            CandidateFails(i) => outcome.val[i].interpretation = "Calculation Failed"

\* a finished batch where a successful and a failed slot both have
\* normalized_score 0.0 and carry different interpretations
C5_Witness ==
    /\ BatchReturned
    /\ Len(comparison_vectors) = 2
    /\ ~CandidateFails(1) /\ CandidateFails(2)
    /\ outcome.val[1].normalized_score = 0
    /\ outcome.val[2].normalized_score = 0
    /\ outcome.val[1].interpretation = "Very Low Similarity"

(***************************************************************************)
(* The interpretation classifier.                                          *)
(***************************************************************************)
\* C6: interpret_similarity_score returns, for every score in [0.0, 1.0], the
\* label of the highest inclusive lower bound not exceeding it; 0.90 and 1.0
\* give "Very High Similarity", 0.899999 "High Similarity", 0.0 "Very Low
\* Similarity".
C6_TierBoundaries ==
    Done("interpret_similarity_score") =>
        /\ outcome.kind = "return"
        /\ outcome.val = TierLabel(score_arg)
        /\ score_arg \in {900000, SCALE} => outcome.val = "Very High Similarity"
        /\ score_arg = 899999 => outcome.val = "High Similarity"
        /\ score_arg = 0 => outcome.val = "Very Low Similarity"

\* the classifier has run on exactly 0.90
C6_Witness ==
    /\ Done("interpret_similarity_score")
    /\ score_arg = 900000
    /\ outcome.val = "Very High Similarity"

(***************************************************************************)
(* The pairwise comparison.                                                *)
(***************************************************************************)
\* C7: for two non-empty vectors of equal length, a result of compare has
\* raw_score in [-1.0, 1.0] and normalized_score in [0.0, 1.0], and the
\* similarity_score the endpoint takes from it passes the response field's
\* bounds.
C7_RangeInvariant ==
    (CompareReturned /\ Len(vector1) > 0 /\ Len(vector1) = Len(vector2)) =>
        /\ outcome.val.score >= -SCALE /\ outcome.val.score <= SCALE
        /\ outcome.val.normalized_score >= 0 /\ outcome.val.normalized_score <= SCALE
        /\ SimilarityScoreField(similarity_score(outcome.val))

\* compare has returned the lowest raw score, for two opposite vectors
C7_Witness ==
    /\ CompareReturned
    /\ Len(vector1) = 2 /\ Len(vector2) = 2
    /\ outcome.val.score = -SCALE
    /\ outcome.val.normalized_score = 0

\* C8: compare raises the empty-vector ValidationError whenever vector1 or
\* vector2 has zero length, before the dimension check and before any
\* arithmetic, and produces no result.
C8_EmptyVectorValidation ==
    (Done("calculate_similarity") /\ (Len(vector1) = 0 \/ Len(vector2) = 0)) =>
        /\ Raised("ValidationError")
        /\ outcome.val.error_code = "VALIDATION_ERROR"
        /\ outcome.val.message.text = "Vectors cannot be empty"
        /\ outcome.val.details = [field |-> "vectors"]
        /\ steps = <<"check_empty">>

\* compare([], v) has run for a v of length 2
C8_Witness ==
    /\ Done("calculate_similarity")
    /\ Len(vector1) = 0 /\ Len(vector2) = 2
    /\ Raised("ValidationError")

\* C9: for two non-empty vectors of different lengths compare raises a
\* ValidationError whose payload gives the length of vector1 as vector1_dim
\* and that of vector2 as vector2_dim, before any arithmetic.
C9_DimensionMismatchValidation ==
    (Done("calculate_similarity") /\ Len(vector1) > 0 /\ Len(vector2) > 0
     /\ Len(vector1) # Len(vector2)) =>
        /\ Raised("ValidationError")
        /\ outcome.val.details["field"] = "vector_dimensions"
        /\ outcome.val.details["vector1_dim"] = Len(vector1)
        /\ outcome.val.details["vector2_dim"] = Len(vector2)
        /\ outcome.val.message.args = <<Len(vector1), Len(vector2)>>
        /\ steps = <<"check_empty", "check_dimensions">>

\* compare has run on a vector of length 1 and one of length 2
C9_Witness ==
    /\ Done("calculate_similarity")
    /\ Len(vector1) = 1 /\ Len(vector2) = 2
    /\ Raised("ValidationError")
    /\ outcome.val.details["vector1_dim"] = 1

\* C10: compareBatch on an empty candidate list raises the empty-batch
\* ValidationError whatever the reference vector, without attempting a
\* comparison and without returning a list.
C10_EmptyBatchValidation ==
    (Done("calculate_batch_similarities") /\ Len(comparison_vectors) = 0) =>
        /\ Raised("ValidationError")
        /\ outcome.val.details = [field |-> "comparison_vectors"]
        /\ outcome.val.message.text = "Comparison vectors list cannot be empty"
        /\ \A k \in DOMAIN steps : steps[k] # "calculate_similarity"

\* compareBatch has run on an empty candidate list with a valid reference
C10_Witness ==
    /\ Done("calculate_batch_similarities")
    /\ Len(comparison_vectors) = 0
    /\ Len(vector1) = 2
    /\ Raised("ValidationError")

(***************************************************************************)
(* Properties of the cosine calculator and of the pairwise comparison,     *)
(* checked under SpecPairwise.                                             *)
(***************************************************************************)
\* both arguments are non-empty sequences of floats of one length
ValidPair ==
    /\ Len(vector1) > 0
    /\ Len(vector1) = Len(vector2)
    /\ Convertible(vector1) /\ Convertible(vector2)

\* every component is exactly 0.0: the L2 norm is zero
ZeroVector(v) == \A i \in 1..Len(v) : v[i].kind = "float" /\ v[i].val = 0

\* a vector of finite floats with at least one non-zero component
NonZeroVector(v) ==
    /\ ~HasNaN(v)
    /\ \E i \in 1..Len(v) : v[i].val # 0

\* C11: for two non-empty float vectors of equal length of which one, in
\* either position, has zero norm, compare raises nothing and returns
\* raw_score 0.0, normalized_score 0.5, "Low-Moderate Similarity".
C11_ZeroVectorDegeneracy ==
    (Done("calculate_similarity") /\ ValidPair
     /\ (ZeroVector(vector1) \/ ZeroVector(vector2))) =>
        /\ outcome.kind = "return"
        /\ outcome.val.score = 0
        /\ outcome.val.normalized_score = 500000
        /\ outcome.val.interpretation = "Low-Moderate Similarity"

\* compare has run on a non-zero vector and, in second position, a zero
\* vector, under the release of the library that does not return NaN
C11_Witness ==
    /\ CompareReturned /\ ValidPair
    /\ scipy_build = "clamps_nan"
    /\ Len(vector1) = 2
    /\ NonZeroVector(vector1) /\ ~AllCloseZero(vector1)
    /\ ZeroVector(vector2)
    /\ outcome.val.score = 0

\* C12: for every non-empty float vector v with at least one non-zero
\* component, however small, compare(v, v) has raw_score 1.0 and the
\* interpretation "Very High Similarity".
C12_Identity ==
    (Done("calculate_similarity") /\ ValidPair /\ vector1 = vector2
     /\ NonZeroVector(vector1)) =>
        /\ outcome.kind = "return"
        /\ outcome.val.score = SCALE
        /\ outcome.val.interpretation = "Very High Similarity"

\* C13: on two non-empty inputs of equal length calculate_cosine_similarity
\* raises or returns a number in [-1.0, 1.0], it returns 0.0 whenever the
\* similarity computed by the library is NaN, and a result of compare has
\* neither a NaN raw_score nor a NaN normalized_score.
C13_NaNNeverPropagated ==
    /\ (Done("calculate_cosine_similarity") /\ Len(vector1) > 0
        /\ Len(vector1) = Len(vector2)) =>
          /\ outcome.kind = "return" =>
                /\ outcome.val # NotANumber
                /\ outcome.val >= -SCALE /\ outcome.val <= SCALE
          /\ (ValidPair /\ cosine(vector1, vector2).isnan) =>
                outcome.kind = "return" /\ outcome.val = 0
    /\ CompareReturned =>
          /\ outcome.val.score >= -SCALE /\ outcome.val.score <= SCALE
          /\ outcome.val.normalized_score >= 0
          /\ outcome.val.normalized_score <= SCALE

\* the cosine of a NaN vector and a non-zero vector was NaN and 0.0 came back
C13_Witness ==
    /\ Done("calculate_cosine_similarity") /\ ValidPair
    /\ scipy_build = "returns_nan"
    /\ HasNaN(vector1) /\ NonZeroVector(vector2) /\ ~AllCloseZero(vector2)
    /\ cosine(vector1, vector2).isnan
    /\ outcome = [kind |-> "return", val |-> 0]
    /\ steps[Len(steps)] = "np.isnan"

\* C14: an exception raised by the arithmetic of calculate_cosine_similarity
\* reaches the caller as a SimilarityError whose cause is that exception, a
\* ValidationError of the validation step reaches it as a ValidationError, and
\* nothing else is ever raised.
C14_ArithmeticFailureWrapped ==
    Done("calculate_cosine_similarity") =>
        /\ (Len(vector1) > 0 /\ Len(vector1) = Len(vector2)
            /\ ~(Convertible(vector1) /\ Convertible(vector2))) =>
              /\ Raised("SimilarityError")
              /\ outcome.val.error_code = "SIMILARITY_CALCULATION_ERROR"
              /\ outcome.val.cause = "ValueError"
        /\ (Len(vector1) = 0 \/ Len(vector2) = 0 \/ Len(vector1) # Len(vector2)) =>
              /\ Raised("ValidationError")
              /\ outcome.val.cause = "None"
        /\ outcome.kind = "raise" =>
              outcome.val.class \in {"ValidationError", "SimilarityError"}

\* the conversion of vector2 has failed after that of vector1 succeeded
C14_Witness ==
    /\ Done("calculate_cosine_similarity")
    /\ Len(vector1) = 2 /\ Len(vector2) = 2
    /\ Convertible(vector1) /\ ~Convertible(vector2)
    /\ Raised("SimilarityError")
    /\ steps[Len(steps)] = "np.array(vector2)"

\* C15: compare returns SimilarityResult(cosine, normalize(cosine),
\* interpret(normalize(cosine))) when the cosine step returns, and raises the
\* very error of the cosine step, having run no later step, when it raises.
C15_CompareIsComposition ==
    Done("calculate_similarity") =>
        LET c == calculate_cosine_similarity(vector1, vector2)
        IN  IF c.kind = "return"
            THEN /\ outcome.kind = "return"
                 /\ outcome.val.score = c.val
                 /\ outcome.val.normalized_score = normalize_similarity_score(c.val)
                 /\ outcome.val.interpretation =
                        interpret_similarity_score(outcome.val.normalized_score)
                 /\ steps = c.steps \o <<"normalize_similarity_score",
                                         "interpret_similarity_score">>
            ELSE /\ outcome = [kind |-> "raise", val |-> c.val]
                 /\ steps = c.steps

\* compare has returned a negative raw score that the classifier saw
\* normalized
C15_Witness ==
    /\ CompareReturned
    /\ outcome.val.score < 0 /\ outcome.val.score > -SCALE
    /\ outcome.val.normalized_score >= 300000
    /\ outcome.val.interpretation = "Low Similarity"

\* C16: compare(v1, v2) and compare(v2, v1) end the same way; for non-empty
\* float vectors of equal length both return the same raw_score, and for an
\* empty vector or a dimension mismatch both raise a ValidationError.
C16_Symmetry ==
    Done("calculate_similarity") =>
        LET swapped == calculate_similarity(vector2, vector1)
        IN  /\ swapped.kind = outcome.kind
            /\ ValidPair =>
                  /\ outcome.kind = "return"
                  /\ swapped.val.score = outcome.val.score
            /\ (Len(vector1) = 0 \/ Len(vector2) = 0 \/ Len(vector1) # Len(vector2)) =>
                  /\ Raised("ValidationError")
                  /\ swapped.val.class = "ValidationError"

\* compare has run on two different non-zero vectors whose cosine is neither
\* 0 nor 1 nor -1
C16_Witness ==
    /\ CompareReturned /\ ValidPair
    /\ vector1 # vector2
    /\ Len(vector1) = 2
    /\ outcome.val.score > 0 /\ outcome.val.score < SCALE
    /\ calculate_similarity(vector2, vector1).val.score = outcome.val.score

\* C19: for two non-zero float vectors of equal length whose dot product is 0,
\* compare returns raw_score 0.0, normalized_score 0.5 and "Low-Moderate
\* Similarity".
C19_Orthogonality ==
    (Done("calculate_similarity") /\ ValidPair
     /\ NonZeroVector(vector1) /\ NonZeroVector(vector2)
     /\ Dot(Significand(vector1), Significand(vector2)) = 0) =>
        /\ outcome.kind = "return"
        /\ outcome.val.score = 0
        /\ outcome.val.normalized_score = 500000
        /\ outcome.val.interpretation = "Low-Moderate Similarity"

\* compare([2, 0], [0, -1]) has gone through the library's cosine
C19_Witness ==
    /\ CompareReturned
    /\ vector1 = <<Float(2), Float(0)>>
    /\ vector2 = <<Float(0), Float(-1)>>
    /\ outcome.val.score = 0
    /\ \E k \in DOMAIN steps : steps[k] = "np.clip"

(***************************************************************************)
(* Monotonicity of the normalizer and of the classifier, checked under     *)
(* Spec on the sampled scores.                                             *)
(***************************************************************************)
\* the place of a label in the table of section 4.4, highest tier first
TierRank(label) == CHOOSE k \in DOMAIN TierTable : TierTable[k].label = label

Alone(f) ==
    LET r == IF f.op = "calculate_similarity"
             THEN calculate_similarity(f.vector1, f.vector2)
             ELSE calculate_batch_similarities(f.vector1, f.comparison_vectors)
    IN  [kind |-> r.kind, val |-> r.val]

\* caller c holds the outcome of a finished compare
HoldsComparison(c) ==
    frames[c].pc = "returned" /\ frames[c].op = "calculate_similarity"

\* C17: two finished calls compare(v1, v2) with the same v1 and v2, whatever
\* calls were made before and between them, have the same outcome, which is
\* the outcome that v1 and v2 alone determine.
C17_Determinism ==
    \A c \in Callers :
        HoldsComparison(c) =>
            /\ frames[c].outcome = Alone(frames[c])
            /\ \A d \in Callers :
                   (/\ HoldsComparison(d)
                    /\ frames[d].vector1 = frames[c].vector1
                    /\ frames[d].vector2 = frames[c].vector2) =>
                       /\ frames[d].outcome.kind = frames[c].outcome.kind
                       /\ frames[d].outcome.val = frames[c].outcome.val

\* both callers hold the result of compare([2.0], [-1.0])
C17_Witness ==
    /\ \A c \in Callers :
           /\ HoldsComparison(c)
           /\ frames[c].vector1 = <<Float(2)>>
           /\ frames[c].vector2 = <<Float(-1)>>
           /\ frames[c].outcome.kind = "return"
    /\ frames["a"].outcome.val.score = -SCALE

\* C20: in every step of every interleaving the instance keeps no attribute,
\* a call that returns returns what it returns when run alone, a step of one
\* caller changes nothing of another caller, a running call leaves its
\* arguments as they are, and a result held by a caller stays as returned.
C20_StatelessReadOnly ==
    [][/\ instance' = NoAttributes
       /\ \A c \in Callers :
              /\ frames'[c].pc = "returned" =>
                     frames'[c].outcome = Alone(frames'[c])
              /\ frames[c].pc \notin {"idle", "returned"} =>
                     /\ frames'[c].op = frames[c].op
                     /\ frames'[c].vector1 = frames[c].vector1
                     /\ frames'[c].vector2 = frames[c].vector2
                     /\ frames'[c].comparison_vectors = frames[c].comparison_vectors
              /\ (frames[c].pc = "returned" /\ frames'[c].pc = "returned") =>
                     frames'[c].outcome = frames[c].outcome
              /\ \A d \in Callers \ {c} :
                     frames'[c] = frames[c] \/ frames'[d] = frames[d]
      ]_vars

\* caller a holds a compare result while the batch of caller b, one result
\* in, is between the cosine step and the normalization of its second
\* comparison
C20_Witness ==
    /\ HoldsComparison("a")
    /\ frames["a"].outcome.kind = "return"
    /\ frames["b"].op = "calculate_batch_similarities"
    /\ frames["b"].pc = "line148"
    /\ Len(frames["b"].results) = 1
    /\ frames["b"].cosine_score # frames["a"].outcome.val.score

(***************************************************************************)
(* The embedding service, checked under SpecEmbedding.                     *)
(***************************************************************************)
\* C23: for every non-empty list of texts a returned list has exactly one
\* embedding result per input text, result i being the embedding of text i,
\* and an empty list is rejected with a ValidationError.
C23_OneResultPerText ==
    embedding.pc = "done" =>
        /\ Len(embedding.texts) = 0 =>
              /\ embedding.outcome.kind = "raise"
              /\ embedding.outcome.val.class = "ValidationError"
        /\ (Len(embedding.texts) > 0 /\ embedding.outcome.kind = "return") =>
              /\ Len(embedding.outcome.val) = Len(embedding.texts)
              /\ \A i \in DOMAIN embedding.outcome.val :
                     embedding.outcome.val[i].vector =
                         EmbeddingOf(Truncate(embedding.texts[i]))

(***************************************************************************)
(* The service boundary and the order of the stages, checked under         *)
(* SpecEndpoint.                                                           *)
(***************************************************************************)
\* the request has been answered after raising an exception of class cls
AnsweredError(cls) ==
    /\ request.pc = "responded"
    /\ request.raised.class = cls

\* C21: a ValidationError is answered with status 422 and error_code
\* VALIDATION_ERROR, a SimilarityError with status 500 and error_code
\* SIMILARITY_CALCULATION_ERROR; the first status is of the 4xx class, the
\* second of the 5xx class, and the response carries the exception's error_code.
C21_ErrorStatusMapping ==
    /\ AnsweredError("ValidationError") =>
          /\ request.response.status_code = 422
          /\ request.response.status_code \div 100 = 4
          /\ request.response.content.error_code = "VALIDATION_ERROR"
          /\ request.response.content.error_code = request.raised.error_code
    /\ AnsweredError("SimilarityError") =>
          /\ request.response.status_code = 500
          /\ request.response.status_code \div 100 = 5
          /\ request.response.content.error_code = "SIMILARITY_CALCULATION_ERROR"
          /\ request.response.content.error_code = request.raised.error_code

\* the engine has rejected two embeddings of different dimensions and the
\* request has been answered
C21_Witness ==
    /\ AnsweredError("ValidationError")
    /\ request.stages[Len(request.stages)] = "engine"
    /\ Len(request.engine_arguments[1]) # Len(request.engine_arguments[2])
    /\ request.response.status_code = 422

StageOrder == <<"session_lookup", "transcribe", "embed", "engine", "assemble">>

\* C22: the stages started so far are an initial part of session lookup,
\* transcription, batch embedding, engine, response assembly; the engine is
\* called with the embedding of the transcription first and that of the
\* reference text second; after a failure no further stage starts and the
\* response is no SimilarityResponse; a SimilarityResponse is given only after
\* all five stages.
C22_StageOrder ==
    /\ Len(request.stages) <= Len(StageOrder)
    /\ \A k \in DOMAIN request.stages : request.stages[k] = StageOrder[k]
    /\ request.engine_arguments # <<>> =>
          /\ Len(request.stages) >= 3
          /\ request.engine_arguments =
                 <<request.embed[request.transcribed_text],
                   request.embed[request.reference_text]>>
    /\ request.raised # NoException =>
          /\ request.pc \in {"exception_handler", "responded"}
          /\ request.response.kind # "SimilarityResponse"
    /\ request.response.kind = "SimilarityResponse" =>
          /\ request.stages = StageOrder
          /\ request.raised = NoException
    /\ request.pc = "responded" => request.response # NoResponse

\* a request has gone through all five stages with two different embeddings
C22_Witness ==
    /\ request.pc = "responded"
    /\ request.response.kind = "SimilarityResponse"
    /\ request.stages = StageOrder
    /\ request.engine_arguments[1] # request.engine_arguments[2]
    /\ request.response.content.similarity_score = 0

(***************************************************************************)
(* The performance metrics, checked under SpecMetrics.                     *)
(***************************************************************************)
\* the processing times recorded since the last reset
RecordedTimes(m) == {m.recorded[k].processing_time : k \in DOMAIN m.recorded}

\* the requests recorded since the last reset with a status from 400 on
RecordedErrors(m) == {k \in DOMAIN m.recorded : m.recorded[k].status_code >= 400}

\* C24: whenever a request has been recorded since the last reset,
\* response_times.min is the smallest and response_times.max the largest
\* processing_time recorded since that reset.
C24_MinMaxOfRecorded ==
    metrics.recorded # <<>> =>
        /\ ~metrics.min.inf /\ metrics.min.val \in RecordedTimes(metrics)
        /\ \A t \in RecordedTimes(metrics) : metrics.min.val <= t
        /\ ~metrics.max.inf /\ metrics.max.val \in RecordedTimes(metrics)
        /\ \A t \in RecordedTimes(metrics) : t <= metrics.max.val

\* the counters of m agree with each other and with the recorded requests
CountersAgree(m) ==
    /\ m.total = Len(m.recorded)
    /\ m.count = m.total
    /\ SumOf(m.by_method) = m.total
    /\ SumOf(m.by_status) = m.total
    /\ SumOf(m.by_endpoint) = m.total
    /\ m.errors_total = Cardinality(RecordedErrors(m))
    /\ m.errors_total <= m.total

\* C25: in every state the request counters agree (total, response time count,
\* and the sums by method, by status and by endpoint), errors.total is the
\* number of recorded requests with a status from 400 on; record_error changes
\* errors.by_type only; reset_metrics puts every counter back to its initial
\* value.
C25_CountersConsistent ==
    [][/\ CountersAgree(metrics)
       /\ CountersAgree(metrics')
       /\ metrics'.last_call = "record_error" =>
              /\ [metrics' EXCEPT !.by_type = metrics.by_type,
                                  !.last_call = metrics.last_call] = metrics
              /\ SumOf(metrics'.by_type) = SumOf(metrics.by_type) + 1
       /\ metrics'.last_call = "reset_metrics" =>
              [metrics' EXCEPT !.last_call = "__init__"] = InitialMetrics
      ]_vars

\* two requests, one of them answered 422, and an error have been recorded
C25_Witness ==
    /\ Len(metrics.recorded) = 2
    /\ metrics.errors_total = 1
    /\ "422" \in DOMAIN metrics.by_status
    /\ "POST" \in DOMAIN metrics.by_method /\ metrics.by_method["POST"] = 2
    /\ metrics.last_call = "record_error"

(***************************************************************************)
(* The database client, checked under SpecDatabase.                        *)
(***************************************************************************)
\* C26: the client holds at most one connection pool at a time: every pool
\* that was created and is not closed is the one self._pool refers to, so
\* that disconnect closes it, and every coroutine that holds an open pool
\* holds that one.
C26_SinglePool ==
    /\ Cardinality(database.open) <= 1
    /\ \A pool \in database.open : database._pool = pool
    /\ \A t \in DbTasks :
           database.tasks[t].pool \in database.open =>
               database.tasks[t].pool = database._pool

(***************************************************************************)
(* The audio service, checked under SpecAudio.                             *)
(***************************************************************************)
\* C27: when decode_base64_audio or transcribe_audio has returned or raised,
\* none of the temporary files it created exists any more.
C27_TemporaryFilesDeleted ==
    audio.pc \in {"line347", "line352", "done"} => audio.files = {}

\* C28: when the provider has rejected the transcription with a rate-limit
\* error, process_and_transcribe raises a RateLimitError, which is answered
\* with status 429.
C28_RateLimitSurfaced ==
    (audio.pc = "done" /\ audio.provider_reply = "openai.RateLimitError") =>
        /\ audio.exc.class = "RateLimitError"
        /\ status_code_mapping(audio.exc.class) = 429

(***************************************************************************)
(* The session service, checked under SpecSession.                         *)
(***************************************************************************)
\* the calls of an operation of the service that have ended
Ended(operation) ==
    {t \in SessionTasks : /\ sessions.tasks[t].op = operation
                          /\ sessions.tasks[t].pc = "done"}

\* the call has raised an exception of the class
RaisedClass(call, cls) ==
    call.outcome.kind = "raise" /\ call.outcome.val.class = cls

\* C29: get_session raises SessionValidationError for a session_id <= 0
\* without calling the repository, SessionNotFoundError when the repository
\* has no row, SessionValidationError when the row's audio is missing or
\* blank; an exception of the repository reaches the caller as
\* DatabaseConnectionError when its message holds "connection" or "timeout"
\* and as DatabaseError otherwise; a record is returned only with non-blank
\* audio.
C29_GetSessionErrors ==
    \A t \in Ended("get_session") :
        LET call == sessions.tasks[t]
        IN  /\ call.session_id <= 0 =>
                   RaisedClass(call, "SessionValidationError") /\ call.queries = 0
            /\ call.reply.kind = "no_row" => RaisedClass(call, "SessionNotFoundError")
            /\ (call.reply.kind = "row" /\ NoAudio(call.reply.audio)) =>
                   RaisedClass(call, "SessionValidationError")
            /\ call.reply.kind = "fault" =>
                   IF ConnectionOrTimeout(call.reply.message)
                   THEN RaisedClass(call, "DatabaseConnectionError")
                   ELSE RaisedClass(call, "DatabaseError")
            /\ call.outcome.kind = "raise" =>
                   call.outcome.val.class \in
                       {"SessionValidationError", "SessionNotFoundError",
                        "DatabaseConnectionError", "DatabaseError"}
            /\ call.outcome.kind = "return" =>
                   /\ call.reply.kind = "row"
                   /\ ~NoAudio(call.outcome.val.audio)
                   /\ call.outcome.val.audio = call.reply.audio

\* one call has been refused for a row with blank audio and another has had
\* an exception of the repository wrapped as DatabaseConnectionError
C29_Witness ==
    \E t, u \in Ended("get_session") :
        /\ sessions.tasks[t].reply.kind = "row"
        /\ sessions.tasks[t].reply.audio = " "
        /\ RaisedClass(sessions.tasks[t], "SessionValidationError")
        /\ sessions.tasks[u].reply.message = <<"Connection", "refused">>
        /\ RaisedClass(sessions.tasks[u], "DatabaseConnectionError")

\* C30: delete_session for a positive id whose repository calls succeed
\* either returns True or raises SessionNotFoundError; it never returns
\* False.
C30_DeleteNeverReturnsFalse ==
    \A t \in Ended("delete_session") :
        LET call == sessions.tasks[t]
        IN  (call.session_id > 0 /\ call.reply.kind # "fault") =>
                \/ RaisedClass(call, "SessionNotFoundError")
                \/ call.outcome.kind = "return" /\ call.outcome.val = TRUE

====
